---- MODULE Spec2Model ----
(***************************************************************************)
(* A model of log2json.py (ZhusunXiao/ql): the rule resolver, the config   *)
(* evaluator (process_config) with the helpers it calls, the adapter for   *)
(* rg (run_rg_json) and main; and of json2html.py (generate_html): the     *)
(* traversal that assigns the categories of the Y axis, the sort, the      *)
(* spreading of the points of one millisecond and the series.              *)
(*                                                                         *)
(* Representation                                                          *)
(*  - A Python str that the code inspects character by character (cursor,  *)
(*    cursor_prefix, a layer given as text) is a sequence of one-character *)
(*    strings.  Patterns, class names and subclass names are only compared *)
(*    for equality and are TLA+ strings.                                   *)
(*  - A dynamically typed Python value is a tagged record, see PyStr,      *)
(*    PyInt, PyFloat, PyNone, PyFn, Absent.                                *)
(*  - A log line's text is abstracted to what the code reads from it:      *)
(*    ts    the groups of the leading timestamp regex, or NoTs,            *)
(*    tags  the rule patterns that the text matches,                       *)
(*    level the logcat level letter the sample resolvers test for,         *)
(*    tok   the substring that a cursor_pattern / resolver regex finds,    *)
(*          or NoTok when that regex does not match.                       *)
(*  - A millisecond timestamp does not fit TLC's 32-bit integers; it is    *)
(*    the pair <<seconds, ms>> standing for seconds * 1000 + ms, and the   *)
(*    value 0 is <<0, 0>>.  Local time is taken to be UTC.                 *)
(***************************************************************************)
EXTENDS Integers, Sequences, FiniteSets, TLC

VARIABLES
    config,               \* the loaded config: [classname, subclasses]
    log_file,             \* the log: a sequence of line texts, line n at index n
    base_year,            \* datetime.now().year, the year supplied to the parser
    pc,                   \* position in process_config
    sub_i,                \* index of the current sub_config (for sub_config in ...)
    rule_i,               \* index of the current rule (for rule in rules)
    matches,              \* result of run_rg_json for the current rule
    match_i,              \* index of the current match (for match in matches)
    seen_lines,           \* process_config's seen_lines set
    subclass_points_map,  \* insertion-ordered dict: sequence of [subclassname, points]
    result,               \* the returned class, or NoResult
    rg,                   \* how the rg executable behaves, per pattern
    config_files,         \* main: the config files named on the command line
    file_i,               \* main: index of the current config_file
    all_data,             \* main: the classes collected so far
    process_json_callbacks, \* main: sequence of [config_file, process_fn]
    main_result,          \* main: its local `result`, the merged document
    hook_i,               \* main: index of the current callback
    main_pc,              \* main: position in main
    exit_code,            \* main: the exit code of the process, or Running
    output_file,          \* main: the document in the output file, or NotWritten
    printed,              \* main: the config_file of each "Running process_json" line
    data,                 \* generate_html: the document read from the JSON file
    html_pc,              \* generate_html: position
    item_i,               \* generate_html: index of the current item of data["all"]
    subclass_i,           \* generate_html: index of the current subclass
    y_axis_categories,    \* generate_html: the category labels, by index
    category_map,         \* generate_html: dict from category label to index
    all_points,           \* generate_html: the collected points
    series_config         \* generate_html: the series of the chart

procVars == <<config, pc, sub_i, rule_i, matches, match_i, seen_lines,
              subclass_points_map, result>>

envVars == <<log_file, base_year, rg>>

mainVars == <<config_files, file_i, all_data, process_json_callbacks,
              main_result, hook_i, main_pc, exit_code, output_file, printed>>

htmlVars == <<data, html_pc, item_i, subclass_i, y_axis_categories,
              category_map, all_points, series_config>>

vars == <<procVars, envVars, mainVars, htmlVars>>

(***************************************************************************)
(* Bounds of the model                                                     *)
(***************************************************************************)
NumLines == 2
MaxGroups == 2
MaxRules == 2
MaxConfigs == 2
MaxEntries == 3
MaxPoints == 3
MaxLayer == 41

Lines == 1..NumLines

(***************************************************************************)
(* Generic helpers                                                         *)
(***************************************************************************)
Min(a, b) == IF a <= b THEN a ELSE b

SeqsUpTo(S, n) == UNION {[1..k -> S] : k \in 0..n}

Range(s) == {s[i] : i \in 1..Len(s)}

Repeat(c, n) == [i \in 1..n |-> c]

Max(a, b) == IF a >= b THEN a ELSE b

(***************************************************************************)
(* Python values                                                           *)
(***************************************************************************)
PyStr(s) == [t |-> "str", v |-> s]
PyInt(n) == [t |-> "int", v |-> n]
PyFloat(w, f) == [t |-> "float", v |-> w, frac |-> f]   \* w + f/10, w >= 0
PyNone == [t |-> "none"]
PyFn(name) == [t |-> "fn", v |-> name]
Absent == [t |-> "absent"]                               \* key not in the dict

Raised == [ok |-> FALSE]
Returned(v) == [ok |-> TRUE, v |-> v]

\* dict.get(key, default)
Get(field, default) == IF field = Absent THEN default ELSE field

\* callable(value)
callable(value) == value.t = "fn"

\* bool(value), as tested by `elif cursor_cfg:`
Truthy(value) ==
    CASE value.t = "str" -> value.v # <<>>
      [] value.t = "int" -> value.v # 0
      [] value.t = "float" -> value.v # 0 \/ value.frac # 0
      [] value.t = "none" -> FALSE
      [] OTHER -> TRUE

DigitChars == <<"0", "1", "2", "3", "4", "5", "6", "7", "8", "9">>
DigitSet == Range(DigitChars)
DigitValue(c) == (CHOOSE i \in 1..10 : DigitChars[i] = c) - 1

RECURSIVE NatToStr(_)
NatToStr(n) ==
    IF n < 10 THEN <<DigitChars[n + 1]>>
    ELSE NatToStr(n \div 10) \o <<DigitChars[(n % 10) + 1]>>

IntToStr(n) == IF n < 0 THEN <<"-">> \o NatToStr(-n) ELSE NatToStr(n)

\* str(value)
str(value) ==
    CASE value.t = "str" -> value.v
      [] value.t = "int" -> IntToStr(value.v)
      [] value.t = "none" -> <<"N", "o", "n", "e">>
      [] OTHER -> <<"<", "o", "b", "j", ">">>

WhiteSpace == {" "}

\* str.strip()
RECURSIVE LStrip(_)
LStrip(s) ==
    IF s # <<>> /\ Head(s) \in WhiteSpace THEN LStrip(Tail(s)) ELSE s

RECURSIVE RStrip(_)
RStrip(s) ==
    IF s # <<>> /\ s[Len(s)] \in WhiteSpace
    THEN RStrip(SubSeq(s, 1, Len(s) - 1)) ELSE s

Strip(s) == RStrip(LStrip(s))

RECURSIVE DigitsToNat(_)
DigitsToNat(s) ==
    IF s = <<>> THEN 0
    ELSE DigitsToNat(SubSeq(s, 1, Len(s) - 1)) * 10 + DigitValue(s[Len(s)])

IsDigits(s) == s # <<>> /\ \A i \in 1..Len(s) : s[i] \in DigitSet

\* int(value): Returned(n), or Raised for the ValueError / TypeError
int(value) ==
    CASE value.t = "int" -> Returned(value.v)
      [] value.t = "float" -> Returned(value.v)
      [] value.t = "str" ->
            LET s == Strip(value.v) IN
            IF IsDigits(s) THEN Returned(DigitsToNat(s))
            ELSE IF s # <<>> /\ s[1] \in {"-", "+"} /\ IsDigits(Tail(s))
                 THEN Returned(IF s[1] = "-" THEN -DigitsToNat(Tail(s))
                               ELSE DigitsToNat(Tail(s)))
                 ELSE Raised
      [] OTHER -> Raised

(***************************************************************************)
(* parse_logcat_timestamp                                                  *)
(***************************************************************************)
NoTs == [t |-> "nots"]
Ts(mo, d, h, mi, s, ms) ==
    [t |-> "ts", month |-> mo, day |-> d, hour |-> h, minute |-> mi,
     second |-> s, ms |-> ms]

IsLeap(y) == (y % 4 = 0 /\ y % 100 # 0) \/ y % 400 = 0

DaysInMonth(y, m) ==
    CASE m \in {1, 3, 5, 7, 8, 10, 12} -> 31
      [] m \in {4, 6, 9, 11} -> 30
      [] OTHER -> IF IsLeap(y) THEN 29 ELSE 28

\* datetime(...) raises ValueError outside these ranges
ValidDateTime(y, mo, d, h, mi, s) ==
    /\ mo \in 1..12
    /\ d >= 1 /\ d <= DaysInMonth(y, mo)
    /\ h \in 0..23
    /\ mi \in 0..59
    /\ s \in 0..59

\* days from 1970-01-01 to y-m-d in the proleptic Gregorian calendar
DaysFromCivil(y, m, d) ==
    LET yy == IF m <= 2 THEN y - 1 ELSE y
        era == yy \div 400
        yoe == yy - era * 400
        mp == (m + 9) % 12
        doy == (153 * mp + 2) \div 5 + d - 1
        doe == yoe * 365 + yoe \div 4 - yoe \div 100 + doy
    IN era * 146097 + doe - 719468

ZeroTimestamp == <<0, 0>>

parse_logcat_timestamp_unchecked(line, year) ==
    IF line.ts.t = "ts"
    THEN LET p == line.ts IN
         <<DaysFromCivil(year, p.month, p.day) * 86400
             + p.hour * 3600 + p.minute * 60 + p.second,
           p.ms>>
    ELSE ZeroTimestamp

parse_logcat_timestamp(line, year) ==
    IF line.ts.t = "ts"
    THEN LET p == line.ts IN
         IF ValidDateTime(year, p.month, p.day, p.hour, p.minute, p.second)
         THEN <<DaysFromCivil(year, p.month, p.day) * 86400
                  + p.hour * 3600 + p.minute * 60 + p.second,
                p.ms>>
         ELSE ZeroTimestamp
    ELSE ZeroTimestamp

(***************************************************************************)
(* The log and the Pattern Search Adapter (ripgrep)                        *)
(***************************************************************************)
NoTok == [t |-> "notok"]
Tok(s) == [t |-> "tok", v |-> s]

Text(ts, tags, level, tok) ==
    [ts |-> ts, tags |-> tags, level |-> level, tok |-> tok]

\* one line of `rg --json` output per message: begin, one match per matching
\* line in file order, end, summary
rg_stdout(pattern, log) ==
    LET RECURSIVE Out(_)
        Out(n) ==
            IF n > Len(log) THEN <<>>
            ELSE (IF pattern \in log[n].tags
                  THEN <<[type |-> "match",
                          data |-> [line_number |-> n,
                                    lines |-> [text |-> log[n]],
                                    submatches |-> <<pattern>>]]>>
                  ELSE <<>>) \o Out(n + 1)
        body == Out(1)
    IN IF body = <<>> THEN <<[type |-> "summary"]>>
       ELSE <<[type |-> "begin"]>> \o body
            \o <<[type |-> "end"], [type |-> "summary"]>>

\* --- how the executable can behave ----------------------------------------
\* launch  "ok", or the exception that subprocess.run raises
\* fails   rg exits with status 2 and prints nothing on stdout (an invalid
\*         regex, an unreadable file)
\* junk    a line of stdout that is not a well-formed message, "none" for none
\* at      the number of lines of stdout that come before the junk line
RgBehaviour(launch, fails, junk, at) ==
    [launch |-> launch, fails |-> fails, junk |-> junk, at |-> at]

RgOk == RgBehaviour("ok", FALSE, "none", 0)

\* a line of stdout: empty, text that is not JSON, or the text of a JSON value
JsonLine(v) == [kind |-> "json", value |-> v]

JunkLine(junk) ==
    CASE junk = "blank" -> [kind |-> "blank"]
      [] junk = "not_json" -> [kind |-> "text"]
      [] junk = "not_object" -> JsonLine(PyInt(5))
      [] junk = "match_no_data" -> JsonLine([type |-> "match"])
      [] junk = "match_bytes" ->
            \* what rg prints for a matching line that is not valid UTF-8
            JsonLine([type |-> "match",
                      data |-> [line_number |-> 1,
                                lines |-> [bytes |-> "/w=="],
                                submatches |-> <<>>]])

InsertAt(s, k, x) ==
    SubSeq(s, 1, Min(k, Len(s))) \o <<x>> \o SubSeq(s, Min(k, Len(s)) + 1, Len(s))

\* lines 86-92: the completed process, when subprocess.run returns one
subprocess_run(pattern, log) ==
    LET b == rg[pattern]
        out == rg_stdout(pattern, log)
        text == [i \in 1..Len(out) |-> JsonLine(out[i])]
    IN IF b.fails THEN [returncode |-> 2, stdout |-> <<>>]
       ELSE [returncode |-> IF \E i \in 1..Len(out) : out[i].type = "match"
                            THEN 0 ELSE 1,
             stdout |-> IF b.junk = "none" THEN text
                        ELSE InsertAt(text, b.at, JunkLine(b.junk))]

\* isinstance(v, dict), for a value read by json.loads
IsDict(v) == "t" \notin DOMAIN v

run_rg_json_exits_never(pattern) == FALSE

\* lines 112-114: FileNotFoundError leaves run_rg_json through sys.exit(1)
run_rg_json_exits(pattern) == rg[pattern].launch = "FileNotFoundError"

\* lines 74-117.  The return code is not looked at.  Raised stands for an
\* exception that leaves the `for line in ...` loop: only JSONDecodeError is
\* caught inside it.
run_rg_json(pattern, log) ==
    LET stdout == subprocess_run(pattern, log).stdout
        RECURSIVE Parse(_, _)
        Parse(i, found) ==
            IF i > Len(stdout) THEN Returned(found)
            ELSE LET line == stdout[i] IN
                 IF line.kind = "blank" THEN Parse(i + 1, found)
                 ELSE IF line.kind = "text" THEN Parse(i + 1, found)
                 ELSE LET value == line.value IN
                      IF ~IsDict(value) THEN Raised
                      ELSE IF "type" \notin DOMAIN value THEN Parse(i + 1, found)
                      ELSE IF value.type # "match" THEN Parse(i + 1, found)
                      ELSE IF "data" \notin DOMAIN value THEN Raised
                      ELSE IF "line_number" \notin DOMAIN value.data THEN Raised
                      ELSE IF "lines" \notin DOMAIN value.data THEN Raised
                      ELSE IF "text" \notin DOMAIN value.data.lines THEN Raised
                      ELSE Parse(i + 1,
                                 Append(found,
                                        [line_number |-> value.data.line_number,
                                         line_text |-> value.data.lines.text,
                                         submatches |->
                                            IF "submatches" \in DOMAIN value.data
                                            THEN value.data.submatches
                                            ELSE <<>>]))
        parsed == Parse(1, <<>>)
    IN IF rg[pattern].launch # "ok" THEN <<>>
       ELSE IF parsed.ok THEN parsed.v ELSE <<>>

(***************************************************************************)
(* extract_cursor                                                          *)
(***************************************************************************)
AsciiLetters ==
    {"a", "b", "c", "d", "e", "f", "g", "h", "i", "j", "k", "l", "m", "n", "o",
     "p", "q", "r", "s", "t", "u", "v", "w", "x", "y", "z",
     "A", "B", "C", "D", "E", "F", "G", "H", "I", "J", "K", "L", "M", "N", "O",
     "P", "Q", "R", "S", "T", "U", "V", "W", "X", "Y", "Z"}
AsciiWord == AsciiLetters \cup DigitSet \cup {"_"}
UnicodeWord == {"U+00E9"}     \* stands for the one character e-acute: matched
                              \* by \w in a str pattern, outside A-Za-z0-9

\* the characters the class [^\w\-_.] leaves alone
KeptBySub(c) == c \in AsciiWord \cup UnicodeWord \cup {"-", "."}

ReSub(s) == [i \in 1..Len(s) |-> IF KeptBySub(s[i]) THEN s[i] ELSE "_"]

CursorMaxLen == 50

Truncate(s) == SubSeq(s, 1, Min(Len(s), CursorMaxLen))

\* re.search(cursor_pattern, line): the matched text, or NoTok
re_search(cursor_pattern, line) ==
    IF cursor_pattern = "TOK" THEN line.tok ELSE NoTok

extract_cursor(line, cursor_pattern, default) ==
    IF cursor_pattern # "" /\ re_search(cursor_pattern, line) # NoTok
    THEN Truncate(ReSub(Strip(re_search(cursor_pattern, line).v)))
    ELSE default

(***************************************************************************)
(* Resolvers: the callables a config supplies for subclassname, cursor and *)
(* layer, and resolve_callable                                             *)
(***************************************************************************)
\* value(line, match): Returned(v), or Raised when the callable raises
CallFn(name, line, match) ==
    CASE name = "dynamic_subclass" ->          \* tests/test_config.py
            Returned(PyStr(IF line.level = "E" THEN "Error Events"
                           ELSE IF line.level = "W" THEN "Warning Events"
                           ELSE "General Events"))
      [] name = "subclass_by_key" ->           \* {'E': .., 'W': ..}[level]
            IF line.level = "E" THEN Returned(PyStr("Error Events"))
            ELSE IF line.level = "W" THEN Returned(PyStr("Warning Events"))
            ELSE Raised
      [] name = "lambda_cursor" ->             \* tests/test_config.py
            Returned(PyStr(IF line.level = "E" THEN <<"E", "R", "R">>
                           ELSE IF line.level = "W" THEN <<"W", "A", "R", "N">>
                           ELSE <<"I", "N", "F", "O">>))
      [] name = "cursor_group" ->              \* re.search(p, line).group(0)
            IF line.tok = NoTok THEN Raised ELSE Returned(PyStr(line.tok.v))
      [] name = "cursor_find" ->               \* m.group(0) if m else None
            IF line.tok = NoTok THEN Returned(PyNone)
            ELSE Returned(PyStr(line.tok.v))
      [] name = "level_to_layer" ->            \* configs/audio.py
            Returned(PyInt(CASE line.level = "E" -> 1
                             [] line.level = "D" -> 3
                             [] OTHER -> 2))
      [] name = "lambda_layer" ->              \* configs/audio.py
            Returned(PyInt(IF line.level = "E" THEN 1
                           ELSE IF line.level = "W" THEN 2 ELSE 3))
      [] name = "layer_by_key" ->              \* {'E': 1, 'W': 2}[level]
            IF line.level = "E" THEN Returned(PyInt(1))
            ELSE IF line.level = "W" THEN Returned(PyInt(2))
            ELSE Raised
      [] name = "layer_get" ->                 \* {'E': 1, 'W': 2}.get(level)
            IF line.level = "E" THEN Returned(PyInt(1))
            ELSE IF line.level = "W" THEN Returned(PyInt(2))
            ELSE Returned(PyNone)
      [] name = "layer_group" ->               \* re.search(p, line).group(0)
            IF line.tok = NoTok THEN Raised ELSE Returned(PyStr(line.tok.v))
      [] OTHER -> Raised

resolve_callable_none(value, line, match, default) ==
    IF callable(value)
    THEN LET r == CallFn(value.v, line, match) IN
         IF r.ok THEN r.v ELSE PyNone
    ELSE value

resolve_callable(value, line, match, default) ==
    IF callable(value)
    THEN LET r == CallFn(value.v, line, match) IN
         IF r.ok THEN r.v ELSE default
    ELSE value

(***************************************************************************)
(* process_config                                                          *)
(*                                                                         *)
(* A key that a dict may lack and whose default is of another type is      *)
(* Absent or a value (cursor, layer, subclassname).  For pattern,          *)
(* cursor_pattern and cursor_prefix the default of .get() is the empty     *)
(* string, so a missing key is the empty string.                           *)
(***************************************************************************)
NoResult == [t |-> "noresult"]

DefaultCursorMatch(line_num) == PyStr(<<"M", "A", "T", "C", "H">>)

\* f"L{line_num}"
DefaultCursor(line_num) == PyStr(<<"L">> \o IntToStr(line_num))

resolve_cursor_pattern_first(rule, line_text, match) ==
    LET cursor_cfg == Get(rule.cursor, PyNone)
        line_num == match.line_number
        extracted == extract_cursor(line_text, rule.cursor_pattern, <<>>)
    IN IF callable(cursor_cfg)
       THEN resolve_callable(cursor_cfg, line_text, match, DefaultCursor(line_num))
       ELSE IF rule.cursor_pattern # "" /\ extracted # <<>>
       THEN PyStr(rule.cursor_prefix \o extracted)
       ELSE IF Truthy(cursor_cfg) THEN cursor_cfg
       ELSE DefaultCursor(line_num)

\* lines 263-272: the cursor of a matched line
resolve_cursor(rule, line_text, match) ==
    LET cursor_cfg == Get(rule.cursor, PyNone)
        cursor_pattern == rule.cursor_pattern
        cursor_prefix == rule.cursor_prefix
        line_num == match.line_number
    IN IF callable(cursor_cfg)
       THEN resolve_callable(cursor_cfg, line_text, match, DefaultCursor(line_num))
       ELSE IF Truthy(cursor_cfg) THEN cursor_cfg
       ELSE IF cursor_pattern # ""
       THEN LET extracted == extract_cursor(line_text, cursor_pattern, <<>>) IN
            IF extracted # <<>> THEN PyStr(cursor_prefix \o extracted)
            ELSE DefaultCursor(line_num)
       ELSE DefaultCursor(line_num)

\* line 275: the layer of a matched line, before int()
resolve_layer(rule, line_text, match) ==
    resolve_callable(Get(rule.layer, PyInt(1)), line_text, match, PyInt(1))

\* line 261
resolve_subclassname(sub_config, line_text, match) ==
    resolve_callable(Get(sub_config.subclassname, PyStr("Unnamed")),
                     line_text, match, PyStr("Unnamed"))

DictAppendNewEntry(d, key, point) ==
    Append(d, [subclassname |-> key, points |-> <<point>>])

\* subclass_points_map[subclassname].append(point) on a defaultdict(list)
DictAppend(d, key, point) ==
    IF \E i \in 1..Len(d) : d[i].subclassname = key
    THEN LET i == CHOOSE i \in 1..Len(d) : d[i].subclassname = key
         IN [d EXCEPT ![i].points = Append(@, point)]
    ELSE Append(d, [subclassname |-> key, points |-> <<point>>])

\* lines 257-283: the body of `for match in matches` for an unseen line.
\* ok = FALSE when int(layer) raises: the exception leaves process_config.
make_point(sub_config, rule, match, year) ==
    LET line_text == match.line_text
        layer == int(resolve_layer(rule, line_text, match))
    IN IF layer.ok
       THEN [ok |-> TRUE,
             subclassname |-> resolve_subclassname(sub_config, line_text, match),
             point |-> [cursor |-> str(resolve_cursor(rule, line_text, match)),
                        msg |-> line_text,
                        line |-> match.line_number,
                        timestamp |-> parse_logcat_timestamp(line_text, year),
                        layer |-> layer.v]]
       ELSE [ok |-> FALSE]

\* list.sort(key=lambda x: x['line']), a stable sort
RECURSIVE InsertByLine(_, _)
InsertByLine(sorted, p) ==
    IF sorted = <<>> THEN <<p>>
    ELSE IF sorted[Len(sorted)].line <= p.line THEN Append(sorted, p)
    ELSE Append(InsertByLine(SubSeq(sorted, 1, Len(sorted) - 1), p),
                sorted[Len(sorted)])

SortByLineSkipped(points) == points

RECURSIVE SortByLine(_)
SortByLine(points) ==
    IF points = <<>> THEN <<>>
    ELSE InsertByLine(SortByLine(SubSeq(points, 1, Len(points) - 1)),
                      points[Len(points)])

\* lines 286-299
build_result(classname, d) ==
    [classname |-> classname,
     subclasses |-> [i \in 1..Len(d) |->
                        [subclassname |-> d[i].subclassname,
                         points |-> SortByLine(d[i].points)]]]

subclasses_config == config.subclasses
CurrentSub == subclasses_config[sub_i]
CurrentRules == CurrentSub.rules

CurrentRule == CurrentRules[rule_i]

already_seen_never(line_num, seen) == FALSE

mark_seen_forgotten(seen, line_num) == seen

mark_seen_and_next(seen, line_num) == seen \cup {line_num, line_num + 1}

\* line 255: seen_lines.add(line_num)
mark_seen(seen, line_num) == seen \cup {line_num}

\* line 253: if line_num in seen_lines
already_seen(line_num, seen) == line_num \in seen

\* `for rule in rules` is exhausted: the next sub_config
NextGroup ==
    /\ pc = "rules"
    /\ sub_i <= Len(subclasses_config)
    /\ rule_i > Len(CurrentRules)
    /\ sub_i' = sub_i + 1
    /\ rule_i' = 1
    /\ UNCHANGED <<config, log_file, base_year, pc, matches, match_i,
                   seen_lines, subclass_points_map, result>>
    /\ UNCHANGED <<rg, mainVars, htmlVars>>

\* lines 239-249: skip a rule without pattern, or run ripgrep for it; pc "exit"
\* is the SystemExit(1) of run_rg_json on its way out of the program
RuleStep ==
    /\ pc = "rules"
    /\ sub_i <= Len(subclasses_config)
    /\ rule_i <= Len(CurrentRules)
    /\ IF CurrentRule.pattern = ""
       THEN /\ rule_i' = rule_i + 1
            /\ UNCHANGED <<pc, matches, match_i>>
       ELSE IF run_rg_json_exits(CurrentRule.pattern)
       THEN /\ pc' = "exit"
            /\ UNCHANGED <<rule_i, matches, match_i>>
       ELSE /\ matches' = run_rg_json(CurrentRule.pattern, log_file)
            /\ match_i' = 1
            /\ pc' = "matches"
            /\ UNCHANGED rule_i
    /\ UNCHANGED <<config, log_file, base_year, sub_i, seen_lines,
                   subclass_points_map, result>>
    /\ UNCHANGED <<rg, mainVars, htmlVars>>

\* lines 251-283: one iteration of `for match in matches`
MatchStep ==
    /\ pc = "matches"
    /\ match_i <= Len(matches)
    /\ LET match == matches[match_i]
           line_num == match.line_number
       IN IF already_seen(line_num, seen_lines)
          THEN /\ match_i' = match_i + 1
               /\ UNCHANGED <<pc, seen_lines, subclass_points_map>>
          ELSE LET made == make_point(CurrentSub, CurrentRule, match, base_year)
               IN /\ seen_lines' = mark_seen(seen_lines, line_num)
                  /\ IF made.ok
                     THEN /\ subclass_points_map' =
                                DictAppend(subclass_points_map,
                                           made.subclassname, made.point)
                          /\ match_i' = match_i + 1
                          /\ UNCHANGED pc
                     ELSE /\ pc' = "raised"
                          /\ UNCHANGED <<subclass_points_map, match_i>>
    /\ UNCHANGED <<config, log_file, base_year, sub_i, rule_i, matches, result>>
    /\ UNCHANGED <<rg, mainVars, htmlVars>>

\* `for match in matches` is exhausted: the next rule
EndMatches ==
    /\ pc = "matches"
    /\ match_i > Len(matches)
    /\ pc' = "rules"
    /\ rule_i' = rule_i + 1
    /\ matches' = <<>>
    /\ match_i' = 1
    /\ UNCHANGED <<config, log_file, base_year, sub_i, seen_lines,
                   subclass_points_map, result>>
    /\ UNCHANGED <<rg, mainVars, htmlVars>>

\* lines 286-299: every sub_config is done, sort and return the class
BuildResult ==
    /\ pc = "rules"
    /\ sub_i > Len(subclasses_config)
    /\ result' = build_result(config.classname,
                              subclass_points_map)
    /\ pc' = "done"
    /\ UNCHANGED <<config, log_file, base_year, sub_i, rule_i, matches,
                   match_i, seen_lines, subclass_points_map>>
    /\ UNCHANGED <<rg, mainVars, htmlVars>>

Next == NextGroup \/ RuleStep \/ MatchStep \/ EndMatches \/ BuildResult

(***************************************************************************)
(* main: load and evaluate each config, merge, run the process_json hooks, *)
(* write the document                                                      *)
(***************************************************************************)
Running == -1                          \* the process has not exited
NotWritten == [t |-> "notwritten"]     \* open(output_file, 'w') was not reached

RgPatterns == {"A", "B"}
AllOk == [p \in RgPatterns |-> RgOk]

\* a config file on the command line: whether it loads, and the attributes of
\* the module it defines
ConfigFile(load, classname, subclasses, process_json) ==
    [load |-> load, classname |-> classname, subclasses |-> subclasses,
     process_json |-> process_json]

load_config_lenient(config_file) ==
    Returned([classname |-> config_file.classname,
              subclasses |-> config_file.subclasses,
              process_json |-> config_file.process_json])

\* lines 141-179; Raised stands for sys.exit(1)
load_config(config_file) ==
    IF config_file.load = "ok"
    THEN Returned([classname |-> config_file.classname,
                   subclasses |-> config_file.subclasses,
                   process_json |-> config_file.process_json])
    ELSE Raised

new_seen_lines_kept(old) == old

\* line 233: seen_lines = set()
new_seen_lines(old) == {}

collect_class_always(data_so_far, class_data) == Append(data_so_far, class_data)

\* lines 417-418: if class_data['subclasses']: all_data.append(class_data)
collect_class(data_so_far, class_data) ==
    IF class_data.subclasses # <<>> THEN Append(data_so_far, class_data)
    ELSE data_so_far

collect_callback_first(callbacks, config_file, cfg) ==
    IF cfg.process_json # PyNone
    THEN <<[config_file |-> config_file, process_fn |-> cfg.process_json]>>
         \o callbacks
    ELSE callbacks

collect_callback_with_points(callbacks, config_file, cfg) ==
    IF cfg.process_json # PyNone /\ result.subclasses # <<>>
    THEN Append(callbacks,
                [config_file |-> config_file, process_fn |-> cfg.process_json])
    ELSE callbacks

\* lines 409-410: if config.get('process_json'): process_json_callbacks.append(...)
collect_callback(callbacks, config_file, cfg) ==
    IF cfg.process_json # PyNone
    THEN Append(callbacks,
                [config_file |-> config_file, process_fn |-> cfg.process_json])
    ELSE callbacks

DefaultName == PyStr("Log Analysis - app.log")

\* lines 302-324
merge_results(configs_data, name) ==
    [name |-> IF name = PyNone THEN DefaultName ELSE name,
     all |-> configs_data]

\* --- the process_json hooks -------------------------------------------------
TsLeq(a, b) == a[1] < b[1] \/ (a[1] = b[1] /\ a[2] <= b[2])

\* points.sort(key=lambda p: p.get('timestamp', 0)), a stable sort
RECURSIVE InsertByTimestamp(_, _)
InsertByTimestamp(sorted, p) ==
    IF sorted = <<>> THEN <<p>>
    ELSE IF TsLeq(sorted[Len(sorted)].timestamp, p.timestamp) THEN Append(sorted, p)
    ELSE Append(InsertByTimestamp(SubSeq(sorted, 1, Len(sorted) - 1), p),
                sorted[Len(sorted)])

RECURSIVE SortByTimestamp(_)
SortByTimestamp(points) ==
    IF points = <<>> THEN <<>>
    ELSE InsertByTimestamp(SortByTimestamp(SubSeq(points, 1, Len(points) - 1)),
                           points[Len(points)])

\* configs/example_process_json.py lines 68-81: sort each subclass by
\* timestamp, then layer 1, 2, 3 by thirds
ByThirds(points) ==
    LET sorted == SortByTimestamp(points)
        n == Len(sorted)
    IN [i \in 1..n |->
           [sorted[i] EXCEPT !.layer =
               IF i - 1 < n \div 3 THEN 1
               ELSE IF i - 1 < (2 * n) \div 3 THEN 2 ELSE 3]]

SetLayer(points, k) == [i \in 1..Len(points) |-> [points[i] EXCEPT !.layer = k]]

\* what a hook does to the point list of a subclass
RewritePoints(how, points) ==
    CASE how = "by_thirds" -> ByThirds(points)
      [] how = "layer_7" -> SetLayer(points, 7)
      [] how = "layer_8" -> SetLayer(points, 8)
      [] how = "layer_9" -> SetLayer(points, 9)

\* the document with the point list of every subclass of every class rewritten
MapPoints(doc, how) ==
    [doc EXCEPT !.all =
        [c \in 1..Len(doc.all) |->
            [doc.all[c] EXCEPT !.subclasses =
                [k \in 1..Len(doc.all[c].subclasses) |->
                    [doc.all[c].subclasses[k] EXCEPT
                        !.points = RewritePoints(how, @)]]]]]

\* what a call process_fn(arg) does: whether it raised, the value it returned,
\* and the object it was given as the call left it.  A hook that reads a
\* document which is None raises AttributeError before it changes anything.
HookCall(raised, ret, arg) == [raised |-> raised, ret |-> ret, arg |-> arg]

call_process_json(process_fn, arg) ==
    LET name == process_fn.v IN
    CASE name = "return_none" -> HookCall(FALSE, PyNone, arg)
      [] name = "raise_first" -> HookCall(TRUE, PyNone, arg)
      [] name \in {"process_json", "set_layer_8", "set_layer_9",
                   "mutate_then_raise"} /\ arg = PyNone ->
            HookCall(TRUE, PyNone, arg)
      [] name = "process_json" /\ arg # PyNone ->
            HookCall(FALSE, MapPoints(arg, "by_thirds"), MapPoints(arg, "by_thirds"))
      [] name = "set_layer_8" /\ arg # PyNone ->
            HookCall(FALSE, MapPoints(arg, "layer_8"), MapPoints(arg, "layer_8"))
      [] name = "set_layer_9" /\ arg # PyNone ->
            HookCall(FALSE, MapPoints(arg, "layer_9"), MapPoints(arg, "layer_9"))
      [] name = "mutate_then_raise" /\ arg # PyNone ->
            HookCall(TRUE, PyNone, MapPoints(arg, "layer_7"))

hook_exception_escapes(outcome) == FALSE

\* line 431: except Exception
hook_exception_caught(outcome) == outcome.raised

\* --- the steps of main --------------------------------------------------------
MainIdle ==
    /\ config_files = <<>>
    /\ file_i = 0
    /\ all_data = <<>>
    /\ process_json_callbacks = <<>>
    /\ main_result = NoResult
    /\ hook_i = 0
    /\ main_pc = "idle"
    /\ exit_code = Running
    /\ output_file = NotWritten
    /\ printed = <<>>

HtmlIdle ==
    /\ data = NoResult
    /\ html_pc = "idle"
    /\ item_i = 0
    /\ subclass_i = 0
    /\ y_axis_categories = <<>>
    /\ category_map = <<>>
    /\ all_points = <<>>
    /\ series_config = <<>>

\* lines 403-406: the next config_file is loaded and process_config is entered
LoadConfig ==
    /\ main_pc = "load"
    /\ file_i <= Len(config_files)
    /\ LET loaded == load_config(config_files[file_i])
       IN IF loaded.ok
          THEN /\ config' = loaded.v
               /\ pc' = "rules"
               /\ sub_i' = 1
               /\ rule_i' = 1
               /\ matches' = <<>>
               /\ match_i' = 1
               /\ seen_lines' = new_seen_lines(seen_lines)
               /\ subclass_points_map' = <<>>
               /\ result' = NoResult
               /\ main_pc' = "process"
               /\ UNCHANGED exit_code
          ELSE /\ exit_code' = 1
               /\ main_pc' = "exited"
               /\ UNCHANGED procVars
    /\ UNCHANGED <<envVars, config_files, file_i, all_data,
                   process_json_callbacks, main_result, hook_i, output_file,
                   printed, htmlVars>>

\* lines 406-419: process_config returns and its class is collected; an
\* exception or a SystemExit that leaves process_config ends the program
AfterProcessConfig ==
    /\ main_pc = "process"
    /\ pc \in {"done", "raised", "exit"}
    /\ IF pc = "done"
       THEN /\ process_json_callbacks' =
                  collect_callback(process_json_callbacks, file_i, config)
            /\ all_data' = collect_class(all_data, result)
            /\ file_i' = file_i + 1
            /\ main_pc' = "load"
            /\ UNCHANGED exit_code
       ELSE /\ exit_code' = 1
            /\ main_pc' = "exited"
            /\ UNCHANGED <<process_json_callbacks, all_data, file_i>>
    /\ UNCHANGED <<procVars, envVars, config_files, main_result, hook_i,
                   output_file, printed, htmlVars>>

\* line 424, no -n option given
MergeResults ==
    /\ main_pc = "load"
    /\ file_i > Len(config_files)
    /\ main_result' = merge_results(all_data, PyNone)
    /\ hook_i' = 1
    /\ main_pc' = "hooks"
    /\ UNCHANGED <<procVars, envVars, config_files, file_i, all_data,
                   process_json_callbacks, exit_code, output_file, printed,
                   htmlVars>>

\* lines 427-432: one iteration of `for config_file, process_fn in ...`
RunHook ==
    /\ main_pc = "hooks"
    /\ hook_i <= Len(process_json_callbacks)
    /\ LET callback == process_json_callbacks[hook_i]
           outcome == call_process_json(callback.process_fn, main_result)
       IN /\ printed' = Append(printed, callback.config_file)
          /\ IF ~outcome.raised
             THEN /\ main_result' = outcome.ret
                  /\ hook_i' = hook_i + 1
                  /\ UNCHANGED <<main_pc, exit_code>>
             ELSE IF hook_exception_caught(outcome)
             THEN /\ main_result' = outcome.arg
                  /\ hook_i' = hook_i + 1
                  /\ UNCHANGED <<main_pc, exit_code>>
             ELSE /\ main_result' = outcome.arg
                  /\ exit_code' = 1
                  /\ main_pc' = "exited"
                  /\ UNCHANGED hook_i
    /\ UNCHANGED <<procVars, envVars, config_files, file_i, all_data,
                   process_json_callbacks, output_file, htmlVars>>

\* lines 434-439: the document is written and main returns
WriteOutput ==
    /\ main_pc = "hooks"
    /\ hook_i > Len(process_json_callbacks)
    /\ output_file' = main_result
    /\ exit_code' = 0
    /\ main_pc' = "exited"
    /\ UNCHANGED <<procVars, envVars, config_files, file_i, all_data,
                   process_json_callbacks, main_result, hook_i, printed,
                   htmlVars>>

NextMain ==
    \/ LoadConfig \/ NextGroup \/ RuleStep \/ MatchStep \/ EndMatches
    \/ BuildResult \/ AfterProcessConfig \/ MergeResults \/ RunHook
    \/ WriteOutput

\* the state at line 399 of main
StartMain(files, log, behaviour) ==
    /\ config_files = files
    /\ log_file = log
    /\ base_year = 2025
    /\ rg = behaviour
    /\ config = NoResult
    /\ pc = "idle"
    /\ sub_i = 0
    /\ rule_i = 0
    /\ matches = <<>>
    /\ match_i = 0
    /\ seen_lines = {}
    /\ subclass_points_map = <<>>
    /\ result = NoResult
    /\ file_i = 1
    /\ all_data = <<>>
    /\ process_json_callbacks = <<>>
    /\ main_result = NoResult
    /\ hook_i = 0
    /\ main_pc = "load"
    /\ exit_code = Running
    /\ output_file = NotWritten
    /\ printed = <<>>
    /\ HtmlIdle

(***************************************************************************)
(* json2html.generate_html: the single traversal that collects the points  *)
(* and the categories of the Y axis                                        *)
(*  - class and subclass names are joined into a label and are sequences   *)
(*    of characters here; a timestamp is the number of milliseconds.       *)
(*  - y_axis_categories[i + 1] is the element i of the Python list.        *)
(***************************************************************************)
Unnamed == <<"U", "n", "n", "a", "m", "e", "d">>

EmptyDict == [t |-> "dict", v |-> <<>>]

\* line 54: if not item
Falsy(item) == item \in {PyNone, EmptyDict}

\* line 42: data.get("all", []); an item without "subclasses" and a subclass
\* without "points" hold the empty list that .get supplies
all_items == data.all

\* lines 57-58
ItemClassname == Get(all_items[item_i].classname, PyStr(Unnamed)).v
ItemSubclasses == all_items[item_i].subclasses

\* line 70: f"{classname}|{subclassname}"
category_label(classname, subclassname) == classname \o <<"|">> \o subclassname

\* line 73: category_index = len(y_axis_categories)
new_category_index(categories) == Len(categories)

\* lines 88-104: the entry of all_points for a point of the document
collected_point(point, classname, subclassname, label, index) ==
    [timestamp_ms |-> point.timestamp,
     cursor |-> point.cursor,
     line |-> point.line,
     layer |-> point.layer,
     classname |-> classname,
     subclassname |-> subclassname,
     category |-> label,
     category_index |-> index]

\* lines 53-58 and 106: an empty item is passed over, or the subclasses of the
\* item are exhausted: the next item
HtmlNextItem ==
    /\ html_pc = "items"
    /\ item_i <= Len(all_items)
    /\ IF Falsy(all_items[item_i]) THEN TRUE
       ELSE subclass_i > Len(ItemSubclasses)
    /\ item_i' = item_i + 1
    /\ subclass_i' = 1
    /\ UNCHANGED <<data, html_pc, y_axis_categories, category_map, all_points,
                   series_config>>
    /\ UNCHANGED <<procVars, envVars, mainVars>>

\* lines 65-104: one iteration of `for subclass in subclasses`
HtmlSubclass ==
    /\ html_pc = "items"
    /\ item_i <= Len(all_items)
    /\ IF Falsy(all_items[item_i]) THEN FALSE
       ELSE subclass_i <= Len(ItemSubclasses)
    /\ LET subclass == ItemSubclasses[subclass_i]
           subclassname == Get(subclass.subclassname, PyStr(Unnamed)).v
           label == category_label(ItemClassname, subclassname)
           known == label \in DOMAIN category_map
           index == IF known THEN category_map[label]
                    ELSE new_category_index(y_axis_categories)
           points == subclass.points
       IN /\ category_map' = IF known THEN category_map
                             ELSE (label :> index) @@ category_map
          /\ y_axis_categories' = IF known THEN y_axis_categories
                                  ELSE Append(y_axis_categories, label)
          /\ all_points' = all_points \o
                [j \in 1..Len(points) |->
                    collected_point(points[j], ItemClassname, subclassname,
                                    label, index)]
    /\ subclass_i' = subclass_i + 1
    /\ UNCHANGED <<data, html_pc, item_i, series_config>>
    /\ UNCHANGED <<procVars, envVars, mainVars>>

\* `for item in all_items` is exhausted: line 109 is reached
HtmlCollected ==
    /\ html_pc = "items"
    /\ item_i > Len(all_items)
    /\ html_pc' = "collected"
    /\ UNCHANGED <<data, item_i, subclass_i, y_axis_categories, category_map,
                   all_points, series_config>>
    /\ UNCHANGED <<procVars, envVars, mainVars>>

(***************************************************************************)
(* json2html.generate_html: the layout of the collected points, lines      *)
(* 108-210                                                                 *)
(*  - a display timestamp is a Python float; here it is the rational       *)
(*    [num, den] in lowest terms with den > 0, and the arithmetic of lines *)
(*    124-129 is carried out on rationals, without rounding.               *)
(*  - a str is compared as Python compares it, code point by code point.   *)
(***************************************************************************)
RECURSIVE GCD(_, _)
GCD(a, b) == IF b = 0 THEN a ELSE GCD(b, a % b)

Abs(n) == IF n < 0 THEN -n ELSE n

\* the float n / d, for d > 0
Rat(n, d) ==
    LET g == GCD(Abs(n), d)
    IN [num |-> n \div g, den |-> d \div g]

FromInt(n) == [num |-> n, den |-> 1]
RatNeg(a) == [num |-> -a.num, den |-> a.den]
RatAdd(a, b) == Rat(a.num * b.den + b.num * a.den, a.den * b.den)
RatMul(k, a) == Rat(k * a.num, a.den)
RatDiv(a, k) == Rat(a.num, a.den * k)
RatLess(a, b) == a.num * b.den < b.num * a.den
RatLeq(a, b) == a.num * b.den <= b.num * a.den

sort_key_without_category(x) == <<x.timestamp_ms, 0, x.line>>

\* line 109: key=lambda x: (x['timestamp_ms'], x['category_index'], x['line'])
sort_key(x) == <<x.timestamp_ms, x.category_index, x.line>>

\* the order of Python tuples of three int
TupleLess(a, b) ==
    \/ a[1] < b[1]
    \/ a[1] = b[1] /\ a[2] < b[2]
    \/ a[1] = b[1] /\ a[2] = b[2] /\ a[3] < b[3]

RECURSIVE InsertByKey(_, _)
InsertByKey(sorted, p) ==
    IF sorted = <<>> THEN <<p>>
    ELSE IF ~TupleLess(sort_key(p), sort_key(sorted[Len(sorted)]))
         THEN Append(sorted, p)
    ELSE Append(InsertByKey(SubSeq(sorted, 1, Len(sorted) - 1), p),
                sorted[Len(sorted)])

sort_all_points_skipped(points) == points

\* line 109: all_points.sort(key=...), a stable sort
RECURSIVE sort_all_points(_)
sort_all_points(points) ==
    IF points = <<>> THEN <<>>
    ELSE InsertByKey(sort_all_points(SubSeq(points, 1, Len(points) - 1)),
                     points[Len(points)])

\* line 114: the key of timestamp_category_groups
group_key(point) == <<point.timestamp_ms, point.category_index>>

\* lines 112-114: the positions in all_points of the members of the group of
\* all_points[p], in the order of the list of the group
group_members(points, p) ==
    {q \in 1..Len(points) : group_key(points[q]) = group_key(points[p])}

\* line 128: the index that enumerate(points) gives all_points[p] in its group
group_position(points, p) ==
    Cardinality({q \in group_members(points, p) : q < p})

total_range_wide == Rat(21, 10)

\* line 124
total_range == Rat(9, 10)

display_timestamp_ms_unspread(current_ts, n, i) == FromInt(current_ts)

\* lines 121-133: the display timestamp of member i of a group of n points
display_timestamp_ms(current_ts, n, i) ==
    IF n > 1
    THEN LET step == RatDiv(total_range, n - 1)
             offset_start == RatDiv(RatNeg(total_range), 2)
         IN RatAdd(RatAdd(FromInt(current_ts), offset_start), RatMul(i, step))
    ELSE FromInt(current_ts)

\* lines 117-134: every point of every group gets its display fields
spread_points(points) ==
    [p \in 1..Len(points) |->
        [timestamp_ms |-> points[p].timestamp_ms,
         cursor |-> points[p].cursor,
         line |-> points[p].line,
         layer |-> points[p].layer,
         classname |-> points[p].classname,
         subclassname |-> points[p].subclassname,
         category |-> points[p].category,
         category_index |-> points[p].category_index,
         display_timestamp_ms |->
            display_timestamp_ms(points[p].timestamp_ms,
                                 Cardinality(group_members(points, p)),
                                 group_position(points, p)),
         display_y |-> points[p].category_index]]

\* lines 137-158
layer_color_palette ==
    <<"#667eea", "#28a745", "#ffc107", "#dc3545", "#17a2b8", "#fd7e14",
      "#6f42c1", "#20c997", "#e83e8c", "#007bff", "#6610f2", "#795548",
      "#607d8b", "#4caf50", "#ff5722", "#9c27b0", "#00bcd4", "#8bc34a",
      "#ff9800", "#3f51b5">>

get_layer_color_from_zero(layer) ==
    layer_color_palette[(layer % Len(layer_color_palette)) + 1]

\* lines 160-162: layer_color_palette[(layer - 1) % len(layer_color_palette)];
\* Python's % with a positive modulus is never negative
get_layer_color(layer) ==
    layer_color_palette[((layer - 1) % Len(layer_color_palette)) + 1]

\* lines 164-166: f'Layer {layer}'
get_layer_name(layer) == <<"L", "a", "y", "e", "r", " ">> \o IntToStr(layer)

\* the characters of the names of the model, by code point
CodePoints == <<" ", "-", "U", "a", "b", "c", "d", "e", "m", "n", "s", "t", "|">>

ord(c) == CHOOSE i \in 1..Len(CodePoints) : CodePoints[i] = c

\* a < b for two str
RECURSIVE StrLess(_, _)
StrLess(a, b) ==
    IF b = <<>> THEN FALSE
    ELSE IF a = <<>> THEN TRUE
    ELSE IF Head(a) # Head(b) THEN ord(Head(a)) < ord(Head(b))
    ELSE StrLess(Tail(a), Tail(b))

\* line 171: the key of subclass_layer_series
series_key(point) == <<point.subclassname, point.layer>>

\* the order of Python tuples (str, int)
KeyLess(a, b) == StrLess(a[1], b[1]) \/ (a[1] = b[1] /\ a[2] < b[2])

\* sorted() of a set of keys
RECURSIVE Sorted(_)
Sorted(keys) ==
    IF keys = {} THEN <<>>
    ELSE LET least == CHOOSE k \in keys : \A o \in keys \ {k} : KeyLess(k, o)
         IN <<least>> \o Sorted(keys \ {least})

\* the keys of a dict in the order of their insertion
RECURSIVE InsertionOrder(_)
InsertionOrder(points) ==
    IF points = <<>> THEN <<>>
    ELSE LET before == InsertionOrder(SubSeq(points, 1, Len(points) - 1))
             key == series_key(points[Len(points)])
         IN IF \E i \in 1..Len(before) : before[i] = key THEN before
            ELSE Append(before, key)

sorted_keys_unsorted(points) == InsertionOrder(points)

\* lines 169-171 and 188: sorted(subclass_layer_series.keys())
sorted_keys(points) == Sorted({series_key(points[p]) : p \in 1..Len(points)})

\* line 171: the point is appended to the series of its (subclassname, layer)
series_of(point, key) == series_key(point) = key

\* lines 172-182: the entry of a series for a point
series_point(point) ==
    [value |-> <<point.display_timestamp_ms, point.display_y, point.cursor>>,
     cursor |-> point.cursor,
     line |-> point.line,
     layer |-> point.layer,
     classname |-> point.classname,
     subclassname |-> point.subclassname]

SelectPoints(points, key) ==
    LET Belongs(point) == series_of(point, key)
    IN SelectSeq(points, Belongs)

\* lines 190-210: one series for every key, in the order of sorted_keys
build_series(points) ==
    LET keys == sorted_keys(points)
    IN [k \in 1..Len(keys) |->
           LET members == SelectPoints(points, keys[k])
           IN [name |-> keys[k][1] \o <<" ", "-", " ">>
                            \o get_layer_name(keys[k][2]),
               type |-> "scatter",
               data |-> [j \in 1..Len(members) |-> series_point(members[j])],
               color |-> get_layer_color(keys[k][2])]]

\* line 109
HtmlSort ==
    /\ html_pc = "collected"
    /\ all_points' = sort_all_points(all_points)
    /\ html_pc' = "sorted"
    /\ UNCHANGED <<data, item_i, subclass_i, y_axis_categories, category_map,
                   series_config>>
    /\ UNCHANGED <<procVars, envVars, mainVars>>

\* lines 112-134
HtmlSpread ==
    /\ html_pc = "sorted"
    /\ all_points' = spread_points(all_points)
    /\ html_pc' = "spread"
    /\ UNCHANGED <<data, item_i, subclass_i, y_axis_categories, category_map,
                   series_config>>
    /\ UNCHANGED <<procVars, envVars, mainVars>>

\* lines 169-210
HtmlSeries ==
    /\ html_pc = "spread"
    /\ series_config' = build_series(all_points)
    /\ html_pc' = "done"
    /\ UNCHANGED <<data, item_i, subclass_i, y_axis_categories, category_map,
                   all_points>>
    /\ UNCHANGED <<procVars, envVars, mainVars>>

NextHtml ==
    HtmlNextItem \/ HtmlSubclass \/ HtmlCollected \/ HtmlSort \/ HtmlSpread
        \/ HtmlSeries

\* the state at line 53 of generate_html
StartHtml(doc) ==
    /\ data = doc
    /\ html_pc = "items"
    /\ item_i = 1
    /\ subclass_i = 1
    /\ y_axis_categories = <<>>
    /\ category_map = <<>>
    /\ all_points = <<>>
    /\ series_config = <<>>
    /\ config = NoResult
    /\ pc = "idle"
    /\ sub_i = 0
    /\ rule_i = 0
    /\ matches = <<>>
    /\ match_i = 0
    /\ seen_lines = {}
    /\ subclass_points_map = <<>>
    /\ result = NoResult
    /\ log_file = <<>>
    /\ base_year = 2025
    /\ rg = AllOk
    /\ MainIdle

\* the state at the first line of process_config
Start(cfg, log, year) ==
    /\ config = cfg
    /\ log_file = log
    /\ base_year = year
    /\ pc = "rules"
    /\ sub_i = 1
    /\ rule_i = 1
    /\ matches = <<>>
    /\ match_i = 1
    /\ seen_lines = {}
    /\ subclass_points_map = <<>>
    /\ result = NoResult
    /\ rg = AllOk
    /\ MainIdle
    /\ HtmlIdle

(***************************************************************************)
(* Inputs: the configs and logs the specifications start from              *)
(***************************************************************************)
TsValid == Ts(7, 28, 15, 15, 7, 283)

Rule(pattern, cursor, cursor_pattern, cursor_prefix, layer) ==
    [pattern |-> pattern, cursor |-> cursor, cursor_pattern |-> cursor_pattern,
     cursor_prefix |-> cursor_prefix, layer |-> layer]

Config(classname, subclasses) ==
    [classname |-> classname, subclasses |-> subclasses]

\* a rule that comes after the rule under study and matches other lines too
LaterRule == Rule("B", PyStr(<<"L", "A", "T", "E", "R">>), "", <<>>, PyInt(2))

\* one sub_config: the rule under study, then LaterRule
ConfigsWith(name, rules) ==
    {Config("Test Category",
            <<[subclassname |-> name, rules |-> <<r, LaterRule>>]>>) : r \in rules}

\* --- several groups and rules, literal cursors and layers ----------------
Patterns == {"", "A", "B"}

GroupNames == {PyStr("Error Events"), PyFn("dynamic_subclass")}

TextsGroups ==
    {Text(TsValid, {}, "E", NoTok),
     Text(TsValid, {"A"}, "E", NoTok),
     Text(TsValid, {"B"}, "W", NoTok),
     Text(TsValid, {"A", "B"}, "E", NoTok),
     Text(TsValid, {"A", "B"}, "W", NoTok)}

\* the rule at position r of group g: its cursor and layer name the position
RuleAt(g, r, pattern) ==
    Rule(pattern, PyStr(<<"R">> \o IntToStr(g) \o <<"_">> \o IntToStr(r)),
         "", <<>>, PyInt(10 * g + r))

\* the size of a config: its rules, an empty group counting as one
RECURSIVE Size(_)
Size(sk) == IF sk = <<>> THEN 0 ELSE Max(1, Len(Head(sk)[2])) + Size(Tail(sk))

\* at most MaxGroups groups, of size at most MaxRules in all
Skeletons ==
    {sk \in SeqsUpTo(GroupNames \X SeqsUpTo(Patterns, MaxRules), MaxGroups) :
        Size(sk) <= MaxRules}

ConfigsGroups ==
    {Config("Audio Subsystem",
            [g \in 1..Len(sk) |->
                [subclassname |-> sk[g][1],
                 rules |-> [r \in 1..Len(sk[g][2]) |-> RuleAt(g, r, sk[g][2][r])]]]) :
        sk \in Skeletons}

\* --- cursor specs ---------------------------------------------------------
LongText == Repeat("a", CursorMaxLen + 1)

CursorSpecs ==
    {Absent, PyStr(<<>>), PyStr(<<"E", "R", "R">>), PyStr(<<"a", " ", "b">>),
     PyStr(LongText), PyFn("lambda_cursor"), PyFn("cursor_group"),
     PyFn("cursor_find")}

RulesCursor ==
    {Rule("A", c, cp, pre, Absent) :
        c \in CursorSpecs, cp \in {"", "TOK"}, pre \in {<<>>, <<"T", "_">>}}

TextsCursor ==
    {Text(TsValid, {"A"}, "E", NoTok),
     Text(TsValid, {"A"}, "W", Tok(<<"a", "b">>)),
     Text(TsValid, {"A", "B"}, "E", Tok(<<" ", "a", "#", "U+00E9", " ">>)),
     Text(TsValid, {"A"}, "I", Tok(LongText)),
     Text(TsValid, {"A"}, "E", Tok(<<" ">>)),
     Text(TsValid, {"A", "B"}, "W", NoTok),
     Text(TsValid, {"B"}, "W", Tok(<<"a", "b">>))}

\* --- layer specs ----------------------------------------------------------
LayerSpecs ==
    {Absent, PyInt(1), PyInt(3), PyInt(0), PyInt(-1), PyStr(<<"3">>),
     PyStr(<<"h", "i", "g", "h">>), PyNone, PyFloat(2, 5),
     PyFn("level_to_layer"), PyFn("lambda_layer"), PyFn("layer_by_key"),
     PyFn("layer_get"), PyFn("layer_group")}

RulesLayer ==
    {Rule("A", PyStr(<<"E", "R", "R">>), "", <<>>, l) : l \in LayerSpecs}

TextsLayer ==
    {Text(TsValid, {"A"}, "E", NoTok),
     Text(TsValid, {"A"}, "W", Tok(<<"7">>)),
     Text(TsValid, {"A", "B"}, "I", Tok(<<"a", "b">>)),
     Text(TsValid, {"A"}, "D", Tok(<<" ", "1", "2", " ">>)),
     Text(TsValid, {"A", "B"}, "I", NoTok),
     Text(TsValid, {"B"}, "I", NoTok)}

\* --- timestamps -----------------------------------------------------------
Timestamps ==
    {NoTs, TsValid,
     Ts(1, 1, 0, 0, 0, 0), Ts(12, 31, 23, 59, 59, 999), Ts(2, 29, 10, 0, 0, 96),
     Ts(13, 1, 8, 0, 0, 96), Ts(0, 10, 8, 0, 0, 96), Ts(2, 30, 8, 0, 0, 96),
     Ts(6, 31, 8, 0, 0, 96), Ts(7, 0, 8, 0, 0, 96), Ts(7, 28, 24, 0, 0, 0),
     Ts(7, 28, 15, 60, 0, 0), Ts(7, 28, 15, 15, 60, 0)}

BaseYears == {2024, 2025}

RulesTimestamp == {Rule(p, PyStr(<<"E", "R", "R">>), "", <<>>, PyInt(1)) : p \in {"A", ""}}

TextsTimestamp ==
    {Text(ts, {"A"}, "I", NoTok) : ts \in Timestamps}
    \cup {Text(ts, {"B"}, "I", NoTok) : ts \in {NoTs, TsValid}}
    \cup {Text(NoTs, {}, "I", NoTok)}

Logs(texts) == [Lines -> texts]

(***************************************************************************)
(* Specifications                                                          *)
(***************************************************************************)
\* rule groups, rules and match lists
Init ==
    \E cfg \in ConfigsGroups, log \in Logs(TextsGroups) :
        Start(cfg, log, 2025)

Spec == Init /\ [][Next]_vars

\* cursor resolution
InitCursor ==
    \E cfg \in ConfigsWith(PyStr("Module Init"), RulesCursor),
       log \in Logs(TextsCursor) :
        Start(cfg, log, 2025)

SpecCursor == InitCursor /\ [][Next]_vars

\* layer resolution
InitLayer ==
    \E cfg \in ConfigsWith(PyFn("subclass_by_key"), RulesLayer),
       log \in Logs(TextsLayer) :
        Start(cfg, log, 2025)

SpecLayer == InitLayer /\ [][Next]_vars

\* timestamp parsing
InitTimestamp ==
    \E cfg \in ConfigsWith(Absent, RulesTimestamp), log \in Logs(TextsTimestamp),
       year \in BaseYears :
        Start(cfg, log, year)

SpecTimestamp == InitTimestamp /\ [][Next]_vars

\* cursor and layer resolution together
SpecResolve == (InitCursor \/ InitLayer) /\ [][Next]_vars

\* --- main: several config files ---------------------------------------------
GroupA == [subclassname |-> PyStr("Error Events"), rules |-> <<RuleAt(1, 1, "A")>>]
GroupB == [subclassname |-> PyStr("Warnings"), rules |-> <<RuleAt(1, 1, "B")>>]
GroupAB ==
    [subclassname |-> PyFn("dynamic_subclass"),
     rules |-> <<RuleAt(1, 1, "A"), RuleAt(1, 2, "B")>>]

\* classname and subclasses of the modules; "Empty" defines no subclasses
ModulesMain ==
    {<<"Audio", <<GroupA>>>>, <<"Camera", <<GroupB>>>>, <<"System", <<GroupAB>>>>,
     <<"Empty", <<>>>>}

Loadable(module, process_json) == ConfigFile("ok", module[1], module[2], process_json)

Audio == Loadable(<<"Audio", <<GroupA>>>>, PyNone)
Camera == Loadable(<<"Camera", <<GroupB>>>>, PyFn("process_json"))
System == Loadable(<<"System", <<GroupAB>>>>, PyNone)

\* a file that load_config gives up on: it does not exist, it is not a .py
\* file, or executing it raises
Unloadable == {ConfigFile(why, "", <<>>, PyNone) :
                  why \in {"missing", "not_py", "exec_error"}}

NonEmptySeqsUpTo(S, n) == SeqsUpTo(S, n) \ {<<>>}

TextsMain ==
    {Text(TsValid, {}, "E", NoTok),
     Text(TsValid, {"A"}, "E", NoTok),
     Text(TsValid, {"A", "B"}, "W", NoTok)}

FilesMain ==
    {Loadable(m, h) : m \in ModulesMain, h \in {PyNone, PyFn("process_json")}}

InitMain ==
    \E files \in NonEmptySeqsUpTo(FilesMain, MaxConfigs), log \in Logs(TextsMain) :
        StartMain(files, log, AllOk)

SpecMain == InitMain /\ [][NextMain]_vars

\* --- main: config files that do not load -----------------------------------
FilesLoad == {Audio, Camera} \cup Unloadable

InitLoad ==
    \E files \in NonEmptySeqsUpTo(FilesLoad, MaxConfigs), log \in Logs(TextsMain) :
        StartMain(files, log, AllOk)

SpecLoad == InitLoad /\ [][NextMain]_vars

\* --- main: the process_json hooks ------------------------------------------
Hooks ==
    {PyNone, PyFn("process_json"), PyFn("set_layer_8"), PyFn("set_layer_9"),
     PyFn("raise_first"), PyFn("mutate_then_raise"), PyFn("return_none")}

FilesHooks ==
    {Loadable(<<"Audio", <<GroupA>>>>, h) : h \in Hooks}
    \cup {Loadable(<<"Empty", <<>>>>, PyFn("set_layer_9"))}

TextsHooks ==
    {Text(TsValid, {}, "E", NoTok),
     Text(TsValid, {"A"}, "E", NoTok),
     Text(Ts(1, 1, 0, 0, 0, 0), {"A"}, "W", NoTok)}

InitHooks ==
    \E files \in NonEmptySeqsUpTo(FilesHooks, MaxConfigs), log \in Logs(TextsHooks) :
        StartMain(files, log, AllOk)

SpecHooks == InitHooks /\ [][NextMain]_vars

\* --- main: the rg executable misbehaves ------------------------------------
Junk == {"blank", "not_json", "not_object", "match_no_data", "match_bytes"}

RgBehaviours ==
    {RgOk, RgBehaviour("FileNotFoundError", FALSE, "none", 0),
     RgBehaviour("OSError", FALSE, "none", 0), RgBehaviour("ok", TRUE, "none", 0)}
    \cup {RgBehaviour("ok", FALSE, j, at) : j \in Junk, at \in 0..(NumLines + 1)}

RgFaults ==
    {b \in [RgPatterns -> RgBehaviours] :
        b["B"] \in {RgOk, RgBehaviour("FileNotFoundError", FALSE, "none", 0),
                    RgBehaviour("ok", TRUE, "none", 0)}}

InitRg ==
    \E files \in {<<System>>, <<Audio, Camera>>}, log \in Logs(TextsMain),
       b \in RgFaults :
        StartMain(files, log, b)

SpecRg == InitRg /\ [][NextMain]_vars

\* --- generate_html: the documents ---------------------------------------------
ClassNamesHtml == {PyStr(<<"a">>), PyStr(<<"a", "|", "b">>)}

PointHtml == [timestamp |-> 1000, cursor |-> <<"E", "R", "R">>, line |-> 1, layer |-> 1]

SubclassesHtml ==
    {[subclassname |-> PyStr(<<"c">>), points |-> <<PointHtml>>],
     [subclassname |-> PyStr(<<"b", "|", "c">>), points |-> <<PointHtml>>],
     [subclassname |-> Absent, points |-> <<>>]}

\* the items with at most n subclass entries
ItemsHtml(n) ==
    {PyNone, EmptyDict}
    \cup {[classname |-> c, subclasses |-> subs] :
             c \in ClassNamesHtml, subs \in SeqsUpTo(SubclassesHtml, n)}

\* the size of an item: its subclass entries, an item without any counting
\* as one
SizeHtml(item) == IF Falsy(item) THEN 1 ELSE Max(1, Len(item.subclasses))

\* the item lists of size at most n
RECURSIVE ItemSeqsHtml(_)
ItemSeqsHtml(n) ==
    IF n = 0 THEN {<<>>}
    ELSE {<<>>} \cup UNION {{<<item>> \o rest : rest \in ItemSeqsHtml(n - SizeHtml(item))} :
                               item \in ItemsHtml(n)}

DocsHtml(n) == {[name |-> "Timeline", all |-> items] : items \in ItemSeqsHtml(n)}

InitHtml == \E doc \in DocsHtml(MaxEntries) : StartHtml(doc)

SpecHtml == InitHtml /\ [][NextHtml]_vars

\* --- generate_html: documents whose points collide --------------------------------
\* the subclass entries of the document: two classes share a subclass name,
\* the class "a" comes from two configs, and the subclass "t" comes first in
\* the document and second in the order of str
PlacesSpread ==
    <<[classname |-> <<"a">>, subclassname |-> <<"t">>],
      [classname |-> <<"a">>, subclassname |-> <<"s">>],
      [classname |-> <<"b">>, subclassname |-> <<"s">>],
      [classname |-> <<"a">>, subclassname |-> <<"s">>]>>

\* the timestamp 0 of a line without a timestamp, and two adjacent milliseconds
TimestampsSpread == {0, 1000, 1001}

\* the layer of the point of line n: 10 and 2 in turn, the greater one first
LayerSpread(n) == IF n % 2 = 1 THEN 10 ELSE 2

\* what the line n of the log became: a point of one subclass entry
AssignmentsSpread(n) ==
    [1..n -> [timestamp : TimestampsSpread, place : 1..Len(PlacesSpread)]]

RECURSIVE PointsSpread(_, _, _)
PointsSpread(assign, place, n) ==
    IF n = 0 THEN <<>>
    ELSE LET before == PointsSpread(assign, place, n - 1)
         IN IF assign[n].place = place
            THEN Append(before,
                        [timestamp |-> assign[n].timestamp,
                         cursor |-> <<"L">> \o IntToStr(n),
                         line |-> n,
                         layer |-> LayerSpread(n)])
            ELSE before

SubclassSpread(assign, place, n) ==
    [subclassname |-> PyStr(PlacesSpread[place].subclassname),
     points |-> PointsSpread(assign, place, n)]

DocSpread(assign, n) ==
    [name |-> "Timeline",
     all |-> <<[classname |-> PyStr(<<"a">>),
                subclasses |-> <<SubclassSpread(assign, 1, n),
                                 SubclassSpread(assign, 2, n)>>],
               [classname |-> PyStr(<<"b">>),
                subclasses |-> <<SubclassSpread(assign, 3, n)>>],
               [classname |-> PyStr(<<"a">>),
                subclasses |-> <<SubclassSpread(assign, 4, n)>>]>>]

InitSpread ==
    \E assign \in AssignmentsSpread(MaxPoints) :
        StartHtml(DocSpread(assign, MaxPoints))

SpecSpread == InitSpread /\ [][NextHtml]_vars

\* --- generate_html: documents with one point, of any layer -------------------------
LayersColor == (0 - MaxLayer)..MaxLayer

DocColor(layer) ==
    [name |-> "Timeline",
     all |-> <<[classname |-> PyStr(<<"a">>),
                subclasses |-> <<[subclassname |-> PyStr(<<"s">>),
                                  points |-> <<[timestamp |-> 1000,
                                                cursor |-> <<"L", "1">>,
                                                line |-> 1,
                                                layer |-> layer]>>]>>]>>]

InitColor == \E layer \in LayersColor : StartHtml(DocColor(layer))

SpecColor == InitColor /\ [][NextHtml]_vars

(***************************************************************************)
(* Vocabulary of the properties                                            *)
(***************************************************************************)
Done == pc = "done"

GroupIdx == 1..Len(config.subclasses)
RuleIdx(g) == 1..Len(config.subclasses[g].rules)
RuleOf(g, r) == config.subclasses[g].rules[r]

\* the positions <<i, j>> of the points of the returned class
PointPos ==
    UNION {{<<i, j>> : j \in 1..Len(result.subclasses[i].points)} :
              i \in 1..Len(result.subclasses)}

PointAt(pos) == result.subclasses[pos[1]].points[pos[2]]
SubclassOf(pos) == result.subclasses[pos[1]].subclassname

\* the adapter reports line n for rule r of group g
RuleMatches(g, r, n) ==
    /\ RuleOf(g, r).pattern # ""
    /\ \E m \in Range(run_rg_json(RuleOf(g, r).pattern, log_file)) :
          m.line_number = n

MatchOf(g, r, n) ==
    CHOOSE m \in Range(run_rg_json(RuleOf(g, r).pattern, log_file)) :
        m.line_number = n

Matched(n) == \E g \in GroupIdx : \E r \in RuleIdx(g) : RuleMatches(g, r, n)

\* declaration order: groups in declared order, rules in order within a group
Before(g1, r1, g2, r2) == g1 < g2 \/ (g1 = g2 /\ r1 < r2)

IsFirstRule(g, r, n) ==
    /\ RuleMatches(g, r, n)
    /\ \A g2 \in GroupIdx : \A r2 \in RuleIdx(g2) :
          RuleMatches(g2, r2, n) => ~Before(g2, r2, g, r)

(***************************************************************************)
(* C1: in the class returned for one config, no two Points have the same   *)
(* line number, whatever rules and groups matched the line.                *)
(***************************************************************************)
C1_NoDuplicateLines ==
    Done => \A p \in PointPos : \A q \in PointPos :
                PointAt(p).line = PointAt(q).line => p = q

\* a line matched by rules of two different groups has its Point in the output
C1_Witness ==
    /\ Done
    /\ \E n \in Lines : \E g1 \in GroupIdx : \E g2 \in GroupIdx :
          /\ g1 # g2
          /\ \E r1 \in RuleIdx(g1) : RuleMatches(g1, r1, n)
          /\ \E r2 \in RuleIdx(g2) : RuleMatches(g2, r2, n)
          /\ \E p \in PointPos : PointAt(p).line = n

(***************************************************************************)
(* C2: first-match-wins.  Every Point emitted for a line N carries the     *)
(* cursor, the layer and the subclass name resolved by the first rule, in  *)
(* declaration order, that matches N; a later rule contributes nothing.    *)
(***************************************************************************)
C2_FirstMatchWins ==
    Done => \A p \in PointPos :
        \E g \in GroupIdx : \E r \in RuleIdx(g) :
            LET n == PointAt(p).line
                m == MatchOf(g, r, n)
            IN /\ IsFirstRule(g, r, n)
               /\ PointAt(p).cursor = str(resolve_cursor(RuleOf(g, r), m.line_text, m))
               /\ PointAt(p).layer = int(resolve_layer(RuleOf(g, r), m.line_text, m)).v
               /\ SubclassOf(p) =
                     resolve_subclassname(config.subclasses[g], m.line_text, m)

\* two rules of one group match the same line, and its Point is in the output
C2_Witness ==
    /\ Done
    /\ \E n \in Lines : \E g \in GroupIdx :
          /\ Len(config.subclasses[g].rules) >= 2
          /\ IsFirstRule(g, 1, n)
          /\ RuleMatches(g, 2, n)
          /\ \E p \in PointPos : PointAt(p).line = n

(***************************************************************************)
(* C6: in the returned class the points of every Subclass are in           *)
(* non-decreasing order of line number.                                    *)
(***************************************************************************)
C6_SortedByLine ==
    Done => \A i \in 1..Len(result.subclasses) :
        LET points == result.subclasses[i].points IN
        \A j \in 1..Len(points) : \A k \in 1..Len(points) :
            j < k => points[j].line <= points[k].line

\* the rules appended the points of some subclass out of line order
C6_Witness ==
    /\ Done
    /\ \E i \in 1..Len(subclass_points_map) :
          LET points == subclass_points_map[i].points IN
          \E j \in 1..Len(points) : \E k \in 1..Len(points) :
              j < k /\ points[j].line > points[k].line

(***************************************************************************)
(* C9: in the returned class every subclass name occurs once, and every    *)
(* Point is in the Subclass that bears the name resolved for its line,     *)
(* whichever group produced it and whether the name is literal or computed.*)
(***************************************************************************)
C9_OneSubclassPerName ==
    Done =>
        /\ \A i \in 1..Len(result.subclasses) : \A k \in 1..Len(result.subclasses) :
              result.subclasses[i].subclassname = result.subclasses[k].subclassname
                  => i = k
        /\ \A p \in PointPos : \A g \in GroupIdx : \A r \in RuleIdx(g) :
              LET n == PointAt(p).line IN
              IsFirstRule(g, r, n) =>
                  SubclassOf(p) = resolve_subclassname(config.subclasses[g],
                                                       log_file[n], MatchOf(g, r, n))

\* one Subclass holds a Point of a group with a literal name and a Point of a
\* group with a computed name
C9_Witness ==
    /\ Done
    /\ \E p \in PointPos : \E q \in PointPos :
          /\ p[1] = q[1]
          /\ \E g \in GroupIdx : \E h \in GroupIdx :
                /\ g # h
                /\ ~callable(config.subclasses[g].subclassname)
                /\ callable(config.subclasses[h].subclassname)
                /\ \E r \in RuleIdx(g) : IsFirstRule(g, r, PointAt(p).line)
                /\ \E r \in RuleIdx(h) : IsFirstRule(h, r, PointAt(q).line)

(***************************************************************************)
(* C3: every emitted Point has a cursor matching ^[A-Za-z0-9_.-]{0,50}$,   *)
(* whether the cursor is a literal, the value of a computed cursor, a      *)
(* cursor_pattern extraction with cursor_prefix, or the default.           *)
(***************************************************************************)
CursorAlphabet == AsciiLetters \cup DigitSet \cup {"_", ".", "-"}

CursorOK(c) == Len(c) <= CursorMaxLen /\ \A i \in 1..Len(c) : c[i] \in CursorAlphabet

C3_CursorSanitized ==
    Done => \A p \in PointPos : CursorOK(PointAt(p).cursor)

(***************************************************************************)
(* C7: a literal is returned unchanged.  As claimed: a Point of a rule     *)
(* with a literal cursor c carries c, or c sanitized, and a Point of a     *)
(* rule with a literal layer k has layer k, for every literal.             *)
(***************************************************************************)
\* trim, replace what is outside [A-Za-z0-9_.-] by "_", truncate to 50
Sanitized(c) ==
    LET t == Strip(c)
    IN Truncate([i \in 1..Len(t) |-> IF t[i] \in CursorAlphabet THEN t[i] ELSE "_"])

IsLiteral(spec) == spec.t \in {"str", "int", "float", "none"}

CursorRaises(g, r, n) ==
    /\ IsFirstRule(g, r, n)
    /\ callable(RuleOf(g, r).cursor)
    /\ ~CallFn(RuleOf(g, r).cursor.v, log_file[n], MatchOf(g, r, n)).ok

C8_CursorResolverRaises ==
    /\ pc # "raised"
    /\ Done => \A n \in Lines : \A g \in GroupIdx : \A r \in RuleIdx(g) :
          CursorRaises(g, r, n) =>
              /\ \E p \in PointPos : PointAt(p).line = n
              /\ \A p \in PointPos : \A q \in PointPos :
                    (PointAt(p).line = n /\ PointAt(q).line = n) => p = q
              /\ \A p \in PointPos :
                    PointAt(p).line = n =>
                        PointAt(p).cursor = <<"L">> \o IntToStr(n)

\* a computed cursor raised on a line that a later rule matches too
C8_Witness ==
    /\ Done
    /\ \E n \in Lines : \E g \in GroupIdx : \E r \in RuleIdx(g) :
          /\ CursorRaises(g, r, n)
          /\ \E r2 \in RuleIdx(g) : r < r2 /\ RuleMatches(g, r2, n)
          /\ \E p \in PointPos : PointAt(p).line = n

(***************************************************************************)
(* C4: when a computed layer raises on a matched line, the Point of that   *)
(* line is emitted with layer 1, the error does not leave process_config,  *)
(* and the remaining matches and rules are still processed.                *)
(***************************************************************************)
LayerRaises(rule, line_text, match) ==
    /\ callable(Get(rule.layer, PyInt(1)))
    /\ ~CallFn(rule.layer.v, line_text, match).ok

C4_LayerResolverRaises ==
    /\ pc = "raised" =>
          ~LayerRaises(CurrentRule, matches[match_i].line_text, matches[match_i])
    /\ Done =>
          /\ \A n \in Lines : Matched(n) => \E p \in PointPos : PointAt(p).line = n
          /\ \A p \in PointPos : \A g \in GroupIdx : \A r \in RuleIdx(g) :
                LET n == PointAt(p).line IN
                (IsFirstRule(g, r, n)
                    /\ LayerRaises(RuleOf(g, r), log_file[n], MatchOf(g, r, n)))
                => PointAt(p).layer = 1

\* a computed layer raised on one line, and a later rule emitted another line
C4_Witness ==
    /\ Done
    /\ \E p \in PointPos : \E q \in PointPos :
          LET n == PointAt(p).line IN
          /\ IsFirstRule(1, 1, n)
          /\ LayerRaises(RuleOf(1, 1), log_file[n], MatchOf(1, 1, n))
          /\ PointAt(p).layer = 1
          /\ IsFirstRule(1, 2, PointAt(q).line)
          /\ PointAt(q).line > n

(***************************************************************************)
(* C5: when a layer spec, literal or returned by a computed layer, cannot  *)
(* be coerced to an integer, the Point is emitted with layer 1 and         *)
(* process_config does not raise.                                          *)
(***************************************************************************)
NotCoercible(rule, line_text, match) ==
    ~int(resolve_layer(rule, line_text, match)).ok

C5_NonCoercibleLayerFallsBack ==
    /\ pc # "raised"
    /\ Done => \A n \in Lines : \A g \in GroupIdx : \A r \in RuleIdx(g) :
          (IsFirstRule(g, r, n)
              /\ NotCoercible(RuleOf(g, r), log_file[n], MatchOf(g, r, n)))
          => \E p \in PointPos : PointAt(p).line = n /\ PointAt(p).layer = 1

(***************************************************************************)
(* C10: a matched line whose beginning is no parseable timestamp (absent,  *)
(* or numerically invalid such as month 13) still gives a Point, with      *)
(* timestamp 0; no matched line is dropped because of its timestamp.       *)
(***************************************************************************)
Unparseable(line_text, year) ==
    \/ line_text.ts = NoTs
    \/ /\ line_text.ts # NoTs
       /\ ~ValidDateTime(year, line_text.ts.month, line_text.ts.day,
                         line_text.ts.hour, line_text.ts.minute,
                         line_text.ts.second)

C10_UnparseableTimestampKept ==
    /\ pc # "raised"
    /\ Done => \A n \in Lines :
          Matched(n) =>
              \E p \in PointPos :
                  /\ PointAt(p).line = n
                  /\ Unparseable(log_file[n], base_year) =>
                        PointAt(p).timestamp = ZeroTimestamp
                  /\ ~Unparseable(log_file[n], base_year) =>
                        PointAt(p).timestamp # ZeroTimestamp

\* the output holds a Point of a line that starts with month 13 and a Point
\* of a line without timestamp
C10_Witness ==
    /\ Done
    /\ \E p \in PointPos : \E q \in PointPos :
          /\ log_file[PointAt(p).line].ts # NoTs
          /\ log_file[PointAt(p).line].ts.month > 12
          /\ PointAt(p).timestamp = ZeroTimestamp
          /\ log_file[PointAt(q).line].ts = NoTs
          /\ PointAt(q).timestamp = ZeroTimestamp

(***************************************************************************)
(* Vocabulary of the properties of main                                    *)
(***************************************************************************)
MainDone == main_pc = "exited"
Wrote == output_file # NotWritten

\* the adapter reports line n for the pattern
Reports(pattern, n) ==
    \E m \in Range(run_rg_json(pattern, log_file)) : m.line_number = n

\* some rule of the config file matches some line of the log
HasPoints(file) ==
    \E g \in 1..Len(file.subclasses) : \E r \in 1..Len(file.subclasses[g].rules) :
        /\ file.subclasses[g].rules[r].pattern # ""
        /\ \E n \in Lines : Reports(file.subclasses[g].rules[r].pattern, n)

ClassNames(classes) == [i \in 1..Len(classes) |-> classes[i].classname]

\* the merged Result is in main_result and no hook has run yet
Merged == main_pc = "hooks" /\ hook_i = 1

\* the points of a document: <<c, k, j>> is point j of subclass k of class c
DocPos(doc) ==
    UNION {UNION {{<<c, k, j>> : j \in 1..Len(doc.all[c].subclasses[k].points)} :
                     k \in 1..Len(doc.all[c].subclasses)} :
              c \in 1..Len(doc.all)}

DocPoint(doc, pos) == doc.all[pos[1]].subclasses[pos[2]].points[pos[3]]

(***************************************************************************)
(* C11: the merged Result lists the classes in the order their configs     *)
(* were given, leaving out exactly the configs that matched no line; such  *)
(* a config is no error: the run goes on, writes the document and exits    *)
(* with code 0.                                                            *)
(***************************************************************************)
C11_ClassesInConfigOrder ==
    /\ Merged =>
          /\ ClassNames(main_result.all) =
                ClassNames(SelectSeq(config_files, HasPoints))
          /\ \A c \in 1..Len(main_result.all) :
                main_result.all[c].subclasses # <<>>
    /\ MainDone => exit_code = 0 /\ Wrote

\* a config without points comes before one with points, and the run is over
C11_Witness ==
    /\ MainDone
    /\ exit_code = 0
    /\ Len(config_files) = 2
    /\ ~HasPoints(config_files[1])
    /\ HasPoints(config_files[2])
    /\ ClassNames(all_data) = <<config_files[2].classname>>

\* the indexes of the config files that define a process_json hook, in the
\* order of the command line
RECURSIVE HookOwnersFrom(_)
HookOwnersFrom(i) ==
    IF i > Len(config_files) THEN <<>>
    ELSE (IF config_files[i].process_json # PyNone THEN <<i>> ELSE <<>>)
         \o HookOwnersFrom(i + 1)

HookOwners == HookOwnersFrom(1)

HookOf(i) == config_files[i].process_json

Writers == {PyFn("process_json"), PyFn("set_layer_8"), PyFn("set_layer_9")}

\* what hook fn writes into the point lists of the whole document
Written(fn, doc) ==
    CASE fn = PyFn("process_json") -> MapPoints(doc, "by_thirds")
      [] fn = PyFn("set_layer_8") -> MapPoints(doc, "layer_8")
      [] fn = PyFn("set_layer_9") -> MapPoints(doc, "layer_9")

\* the hooks of owners[i..] applied one after another, each to the document
\* the one before it left
RECURSIVE OneAfterAnother(_, _, _)
OneAfterAnother(owners, i, doc) ==
    IF i > Len(owners) THEN doc
    ELSE OneAfterAnother(owners, i + 1, Written(HookOf(owners[i]), doc))

(***************************************************************************)
(* C12: the process_json hooks run one after another in the order in which *)
(* their configs were given; each hook is handed the whole merged Result   *)
(* as the hook before it left it, so that of two hooks writing the same    *)
(* field the later one's write is what the document holds.                 *)
(***************************************************************************)
C12_HooksInInputOrder ==
    /\ main_pc \in {"hooks", "exited"} =>
          printed = SubSeq(HookOwners, 1, Len(printed))
    /\ (MainDone /\ exit_code = 0) =>
          /\ printed = HookOwners
          /\ (\A i \in Range(HookOwners) : HookOf(i) \in Writers) =>
                output_file =
                   OneAfterAnother(HookOwners, 1, merge_results(all_data, PyNone))

\* set_layer_8 of the first config, then set_layer_9 of the second: the
\* points of the first config's class end with layer 9
C12_Witness ==
    /\ MainDone
    /\ exit_code = 0
    /\ Len(config_files) = 2
    /\ HookOf(1) = PyFn("set_layer_8")
    /\ HookOf(2) = PyFn("set_layer_9")
    /\ DocPos(output_file) # {}
    /\ \A pos \in DocPos(output_file) : DocPoint(output_file, pos).layer = 9

\* the hook about to be called raises
HookRaises ==
    /\ main_pc = "hooks"
    /\ hook_i <= Len(process_json_callbacks)
    /\ call_process_json(process_json_callbacks[hook_i].process_fn,
                         main_result).raised

(***************************************************************************)
(* C13: when a hook raises, the Result carried forward is the Result as it *)
(* was immediately before the hook was called, also when the hook changed  *)
(* points in place before it raised.                                       *)
(***************************************************************************)
C13_RaisingHookLeavesResult ==
    [][HookRaises => main_result' = main_result]_vars

\* every callback was announced once, in the order of the callbacks
EachHookOnce ==
    printed = [i \in 1..Len(process_json_callbacks) |->
                  process_json_callbacks[i].config_file]

(***************************************************************************)
(* C14: a hook that raises does not stop the run: the step of a raising    *)
(* hook leads to the next callback, and the callback loop is only left     *)
(* with every hook called exactly once, the document written and the exit  *)
(* code 0.                                                                 *)
(***************************************************************************)
C14_RaisingHookDoesNotStop ==
    [][/\ HookRaises =>
             /\ main_pc' = "hooks"
             /\ hook_i' = hook_i + 1
             /\ printed' = Append(printed, process_json_callbacks[hook_i].config_file)
       /\ (main_pc = "hooks" /\ main_pc' = "exited") =>
             /\ exit_code' = 0
             /\ output_file' # NotWritten
             /\ EachHookOnce']_vars

\* the first of two hooks raised, the second ran, and the document is written
C14_Witness ==
    /\ MainDone
    /\ Wrote
    /\ Len(config_files) = 2
    /\ HookOf(1) \in {PyFn("raise_first"), PyFn("mutate_then_raise")}
    /\ HookOf(2) = PyFn("set_layer_9")
    /\ printed = <<1, 2>>
    /\ DocPos(output_file) # {}
    /\ \A pos \in DocPos(output_file) : DocPoint(output_file, pos).layer = 9

RulePos ==
    UNION {UNION {{<<i, g, r>> : r \in 1..Len(config_files[i].subclasses[g].rules)} :
                     g \in 1..Len(config_files[i].subclasses)} :
              i \in 1..Len(config_files)}

PatternAt(pos) == config_files[pos[1]].subclasses[pos[2]].rules[pos[3]].pattern

UsedPatterns == {PatternAt(pos) : pos \in RulePos} \ {""}

ExecutableMissing == \E p \in UsedPatterns : rg[p].launch = "FileNotFoundError"

\* rg could not be started, or it ended with a status that is neither 0
\* (matches) nor 1 (no matches)
AdapterFailed ==
    \E p \in UsedPatterns :
        rg[p].launch # "ok" \/ subprocess_run(p, log_file).returncode \notin {0, 1}

\* the points collected for config file i
PointsOfFile(i) ==
    UNION {UNION {Range(all_data[c].subclasses[k].points) :
                     k \in 1..Len(all_data[c].subclasses)} :
              c \in {c \in 1..Len(all_data) :
                        all_data[c].classname = config_files[i].classname}}

\* the cursor that only the rule at pos resolves
CursorAt(pos) == <<"R">> \o IntToStr(pos[2]) \o <<"_">> \o IntToStr(pos[3])

(***************************************************************************)
(* C16 as stated: a failure of the adapter, the executable missing or an   *)
(* exit status other than those for matches and no matches, ends the run   *)
(* with a non-zero exit code and nothing written; without such a failure   *)
(* the run ends with exit code 0.                                          *)
(***************************************************************************)
C16_AdapterFailureAborts ==
    MainDone => IF AdapterFailed THEN exit_code # 0 /\ ~Wrote
                ELSE exit_code = 0 /\ Wrote

(***************************************************************************)
(* C16 amended: only a missing executable ends the run, with exit code 1   *)
(* and nothing written.  When rg cannot be started for another reason or   *)
(* exits with status 2, the rule contributes no point, the other rules are *)
(* evaluated, the document is written and the exit code is 0.              *)
(***************************************************************************)
C16_OnlyMissingExecutableAborts ==
    MainDone =>
        IF ExecutableMissing THEN exit_code = 1 /\ ~Wrote
        ELSE /\ exit_code = 0
             /\ Wrote
             /\ \A pos \in RulePos :
                   LET b == rg[PatternAt(pos)] IN
                   /\ (b.launch # "ok" \/ b.fails) =>
                         \A pt \in PointsOfFile(pos[1]) : pt.cursor # CursorAt(pos)
                   /\ b = RgOk =>
                         \A n \in Lines :
                            PatternAt(pos) \in log_file[n].tags =>
                               \E pt \in PointsOfFile(pos[1]) : pt.line = n

\* rg exits with status 2 for pattern A, the rule for B has its points and
\* the run ends with exit code 0
C16_Witness ==
    /\ MainDone
    /\ exit_code = 0
    /\ Wrote
    /\ rg["A"].fails
    /\ rg["B"] = RgOk
    /\ \E n \in Lines : "A" \in log_file[n].tags
    /\ \E pos \in RulePos :
          /\ PatternAt(pos) = "B"
          /\ \E pt \in PointsOfFile(pos[1]) : pt.cursor = CursorAt(pos)

\* the well-formed match messages of the output, as run_rg_json returns them
WellFormedMatches(pattern) ==
    LET out == rg_stdout(pattern, log_file)
        IsMatch(message) == message.type = "match"
        found == SelectSeq(out, IsMatch)
    IN [i \in 1..Len(found) |->
           [line_number |-> found[i].data.line_number,
            line_text |-> found[i].data.lines.text,
            submatches |-> found[i].data.submatches]]

(***************************************************************************)
(* C17: a malformed line of the adapter's output is skipped on its own:    *)
(* run_rg_json returns, in order, every well-formed match of the same      *)
(* invocation, whether the malformed line is not JSON or is a JSON message *)
(* of type match without the expected fields.                              *)
(***************************************************************************)
C17_MalformedLineSkipped ==
    (/\ pc = "matches"
     /\ match_i = 1
     /\ rg[CurrentRule.pattern].launch = "ok"
     /\ ~rg[CurrentRule.pattern].fails
     /\ rg[CurrentRule.pattern].junk \in {"not_json", "match_no_data", "match_bytes"})
    => matches = WellFormedMatches(CurrentRule.pattern)

Loads(file) == file.load = "ok"

FirstUnloadable ==
    CHOOSE i \in 1..Len(config_files) :
        /\ ~Loads(config_files[i])
        /\ \A j \in 1..(i - 1) : Loads(config_files[j])

(***************************************************************************)
(* C18 as stated: a config that does not load is skipped, the other        *)
(* configs are evaluated and the document is written; the run ends with an *)
(* error only when no config loads.                                        *)
(***************************************************************************)
C18_UnloadableConfigSkipped ==
    MainDone =>
        IF \E i \in 1..Len(config_files) : Loads(config_files[i])
        THEN /\ exit_code = 0
             /\ Wrote
             /\ ClassNames(all_data) =
                   ClassNames(SelectSeq(config_files, HasPoints))
        ELSE exit_code # 0

(***************************************************************************)
(* C18 amended: the first config that does not load ends the run there,    *)
(* with exit code 1 and nothing written, the configs after it are not      *)
(* loaded; when every config loads the document is written and the exit    *)
(* code is 0.                                                              *)
(***************************************************************************)
C18_UnloadableConfigAborts ==
    MainDone =>
        IF \E i \in 1..Len(config_files) : ~Loads(config_files[i])
        THEN exit_code = 1 /\ ~Wrote /\ file_i = FirstUnloadable
        ELSE exit_code = 0 /\ Wrote

\* the first config gave a class, the second does not load: nothing is written
C18_Witness ==
    /\ MainDone
    /\ Len(config_files) = 2
    /\ Loads(config_files[1])
    /\ ~Loads(config_files[2])
    /\ all_data # <<>>
    /\ exit_code = 1
    /\ ~Wrote

(***************************************************************************)
(* Vocabulary of the properties of generate_html                           *)
(***************************************************************************)
Collected == html_pc = "collected"

\* the subclass entries of the document: <<i, k>> is subclass k of item i
EntryPos ==
    UNION {{<<i, k>> : k \in 1..Len(data.all[i].subclasses)} :
              i \in {i \in 1..Len(data.all) : ~Falsy(data.all[i])}}

\* the category of an entry: its class name and its subclass name
PairOf(pos) ==
    <<Get(data.all[pos[1]].classname, PyStr(Unnamed)).v,
      Get(data.all[pos[1]].subclasses[pos[2]].subclassname, PyStr(Unnamed)).v>>

\* the category_index that the traversal gave to an entry
IndexOf(pos) == category_map[category_label(PairOf(pos)[1], PairOf(pos)[2])]

\* the categories of the entries in the order of the walk: items in stored
\* order, the subclasses of an item in stored order
RECURSIVE PairsFrom(_, _)
PairsFrom(i, k) ==
    IF i > Len(data.all) THEN <<>>
    ELSE IF Falsy(data.all[i]) THEN PairsFrom(i + 1, 1)
    ELSE IF k > Len(data.all[i].subclasses) THEN PairsFrom(i + 1, 1)
    ELSE <<PairOf(<<i, k>>)>> \o PairsFrom(i, k + 1)

\* the distinct elements of a sequence, in the order of their first appearance
RECURSIVE FirstAppearances(_)
FirstAppearances(seq) ==
    IF seq = <<>> THEN <<>>
    ELSE LET before == FirstAppearances(SubSeq(seq, 1, Len(seq) - 1))
             last == seq[Len(seq)]
         IN IF last \in Range(before) THEN before ELSE Append(before, last)

Categories == FirstAppearances(PairsFrom(1, 1))

\* the place of a category among the categories, counted from 0
PlaceOf(pair) == (CHOOSE i \in 1..Len(Categories) : Categories[i] = pair) - 1

(***************************************************************************)
(* C19: category_index is 0, 1, 2, ... in the order in which the           *)
(* categories first appear while the classes and their subclasses are      *)
(* walked in stored order; a category seen again keeps its index, the      *)
(* indexes are contiguous from 0 and yAxisData[i] is the category with     *)
(* index i.                                                                *)
(***************************************************************************)
C19_IndexByFirstAppearance ==
    Collected =>
        /\ \A pos \in EntryPos : IndexOf(pos) = PlaceOf(PairOf(pos))
        /\ Len(y_axis_categories) = Len(Categories)
        /\ \A i \in 1..Len(Categories) :
              y_axis_categories[i] = category_label(Categories[i][1], Categories[i][2])

(***************************************************************************)
(* C20: the identity of a category is the pair of class name and subclass  *)
(* name: two subclass entries have the same category_index exactly when    *)
(* their class names are equal and their subclass names are equal,         *)
(* whatever characters the names hold.                                     *)
(***************************************************************************)
C20_CategoryIsThePair ==
    Collected =>
        \A p \in EntryPos : \A q \in EntryPos :
            IndexOf(p) = IndexOf(q) <=> PairOf(p) = PairOf(q)

(***************************************************************************)
(* Vocabulary of the layout                                                *)
(***************************************************************************)
LaidOut == html_pc = "done"

PointIdx == 1..Len(all_points)

\* the points that share the timestamp and the category index of all_points[p]
GroupOf(p) ==
    {q \in PointIdx :
        /\ all_points[q].timestamp_ms = all_points[p].timestamp_ms
        /\ all_points[q].category_index = all_points[p].category_index}

Display(p) == all_points[p].display_timestamp_ms

\* ts - 0.45 and ts + 0.45
LowEnd(ts) == Rat(20 * ts - 9, 20)
HighEnd(ts) == Rat(20 * ts + 9, 20)

LineRank(p) ==
    Cardinality({q \in GroupOf(p) : all_points[q].line < all_points[p].line})

\* ts - 0.45 + i * 0.9 / (n - 1)
Evenly(ts, n, i) == Rat(20 * ts * (n - 1) - 9 * (n - 1) + 18 * i, 20 * (n - 1))

SeriesIdx == 1..Len(series_config)

\* the (subclass name, layer) of the points of a series
KeysOf(k) ==
    {<<series_config[k].data[j].subclassname, series_config[k].data[j].layer>> :
        j \in 1..Len(series_config[k].data)}

\* the entries of the series that stand for the point all_points[p]
EntriesOf(p) ==
    {<<k, j>> \in SeriesIdx \X PointIdx :
        /\ j <= Len(series_config[k].data)
        /\ series_config[k].data[j].line = all_points[p].line
        /\ series_config[k].data[j].classname = all_points[p].classname
        /\ series_config[k].data[j].cursor = all_points[p].cursor}

SeriesSize(k) == Len(series_config[k].data)

RECURSIVE SumSizes(_)
SumSizes(k) == IF k = 0 THEN 0 ELSE SumSizes(k - 1) + SeriesSize(k)

(***************************************************************************)
(* C23: every laid out point is in exactly one series, the series of its   *)
(* (subclass name, layer); points with the same subclass name and layer    *)
(* are in the same series whatever their class; and the series come in     *)
(* the order of the subclass name, then of the layer as a number.          *)
(***************************************************************************)
C23_SeriesBySubclassAndLayer ==
    LaidOut =>
        /\ \A p \in PointIdx :
              /\ Cardinality(EntriesOf(p)) = 1
              /\ \A e \in EntriesOf(p) :
                    KeysOf(e[1]) = {<<all_points[p].subclassname,
                                      all_points[p].layer>>}
        /\ SumSizes(Len(series_config)) = Len(all_points)
        /\ \A k \in SeriesIdx : Cardinality(KeysOf(k)) = 1
        /\ \A k1, k2 \in SeriesIdx :
              k1 < k2 =>
                LET a == CHOOSE key \in KeysOf(k1) : TRUE
                    b == CHOOSE key \in KeysOf(k2) : TRUE
                IN \/ StrLess(a[1], b[1])
                   \/ a[1] = b[1] /\ a[2] < b[2]

\* a series holds points of two classes, and the document meets the series
\* in another order than the one they are given
C23_Witness ==
    /\ LaidOut
    /\ Len(series_config) >= 2
    /\ \E k \in SeriesIdx :
          \E i, j \in 1..Len(series_config[k].data) :
              series_config[k].data[i].classname
                  # series_config[k].data[j].classname
    /\ all_points[1].layer = 10
    /\ series_config[1].data[1].layer = 2

\* the layer of the points of a series
LayerOfSeries(k) == series_config[k].data[1].layer

(***************************************************************************)
(* C24: the colour of a layer is the entry (layer - 1) mod 20 of the       *)
(* palette: it is defined for every integer layer, zero and negative ones  *)
(* included, two layers have the same colour exactly when they differ by   *)
(* a multiple of 20, so the layers L and L + 20 share a colour and the     *)
(* layers 1 to 20 have twenty different colours.                           *)
(***************************************************************************)
C24_ColourRepeatsEveryTwenty ==
    LaidOut =>
        \A k \in SeriesIdx :
            LET L == LayerOfSeries(k)
                colour == series_config[k].color
            IN /\ \E i \in 0..19 :
                    /\ (L - 1 - i) % 20 = 0
                    /\ colour = layer_color_palette[i + 1]
               /\ colour = get_layer_color(L + 20)
               /\ \A M \in LayersColor :
                    (get_layer_color(M) = colour) <=> ((M - L) % 20 = 0)
               /\ \A M1, M2 \in 1..20 :
                    M1 # M2 => get_layer_color(M1) # get_layer_color(M2)

\* the series of a point of layer 0 has the last colour of the palette
C24_Witness ==
    /\ LaidOut
    /\ \E k \in SeriesIdx :
        /\ LayerOfSeries(k) = 0
        /\ series_config[k].color = "#3f51b5"

(***************************************************************************)
(* C25: every Point that process_config emits has a layer that is an       *)
(* integer and at least 1, whatever literal the rule gives and whatever    *)
(* its computed layer returns.                                             *)
(***************************************************************************)
C25_LayerAtLeastOne ==
    Done => \A p \in PointPos :
                /\ PointAt(p).layer \in Int
                /\ PointAt(p).layer >= 1

(***************************************************************************)
(* C26: on every run that exits with code 0 the document written is an     *)
(* object with a "name" and an "all" list of classes, whatever the         *)
(* process_json hooks return or raise.                                     *)
(***************************************************************************)
C26_WrittenDocumentIsResult ==
    (MainDone /\ exit_code = 0) =>
        /\ Wrote
        /\ output_file # PyNone
        /\ {"name", "all"} \subseteq DOMAIN output_file

\* the number of configs up to config i that have a hook
HookRank(i) == Cardinality({j \in 1..i : HookOf(j) # PyNone})

(***************************************************************************)
(* C30: the hook of a config that produced no point, and whose class is    *)
(* therefore not in the Result, is collected and is called on the merged   *)
(* Result at the position of its config among the hooks; when it is the    *)
(* only hook, what it wrote into the classes of the other configs is in    *)
(* the document.                                                           *)
(***************************************************************************)
C30_HookOfEmptyConfigRuns ==
    (MainDone /\ exit_code = 0) =>
        \A i \in 1..Len(config_files) :
            (HookOf(i) # PyNone /\ ~HasPoints(config_files[i])) =>
                /\ Len(all_data) < Len(config_files)
                /\ Len(printed) >= HookRank(i)
                /\ printed[HookRank(i)] = i
                /\ \A k \in 1..Len(printed) : printed[k] = i => k = HookRank(i)
                /\ (HookOwners = <<i>> /\ HookOf(i) \in Writers) =>
                      output_file =
                          Written(HookOf(i), merge_results(all_data, PyNone))

\* the second config has no subclasses and its hook sets every layer to 9:
\* the points of the first config's class are written with layer 9
C30_Witness ==
    /\ MainDone
    /\ exit_code = 0
    /\ Len(config_files) = 2
    /\ HookOf(1) = PyNone
    /\ HookOf(2) = PyFn("set_layer_9")
    /\ ~HasPoints(config_files[2])
    /\ printed = <<2>>
    /\ Len(output_file.all) = 1
    /\ DocPos(output_file) # {}
    /\ \A pos \in DocPos(output_file) : DocPoint(output_file, pos).layer = 9

\* the rawData of chart_data is all_points (line 224)
rawData == all_points

RawKey(p) == <<rawData[p].timestamp_ms, rawData[p].category_index, rawData[p].line>>

(***************************************************************************)
(* C27: after the layout rawData is in the order of (timestamp_ms,         *)
(* category_index, line number): of two points the one with the lesser     *)
(* triple is never the later one; so the points with timestamp 0 come      *)
(* before every point with a parsed timestamp.                             *)
(***************************************************************************)
C27_RawDataOrdered ==
    LaidOut =>
        /\ \A p, q \in PointIdx :
              p < q =>
                \/ RawKey(p)[1] < RawKey(q)[1]
                \/ /\ RawKey(p)[1] = RawKey(q)[1]
                   /\ RawKey(p)[2] < RawKey(q)[2]
                \/ /\ RawKey(p)[1] = RawKey(q)[1]
                   /\ RawKey(p)[2] = RawKey(q)[2]
                   /\ RawKey(p)[3] <= RawKey(q)[3]
        /\ \A p, q \in PointIdx :
              (rawData[p].timestamp_ms = 0 /\ rawData[q].timestamp_ms > 0)
                  => p < q

\* the document gives a point with a timestamp first and a point without one
\* after it; rawData has them the other way round
C27_Witness ==
    /\ LaidOut
    /\ data.all[1].subclasses[1].points # <<>>
    /\ data.all[1].subclasses[1].points[1].timestamp > 0
    /\ data.all[3].subclasses[1].points # <<>>
    /\ data.all[3].subclasses[1].points[1].timestamp = 0
    /\ rawData[1].timestamp_ms = 0
    /\ rawData[1].classname # rawData[Len(rawData)].classname

PointsOfLine(n) == {p \in PointPos : PointAt(p).line = n}

====
